---------------------------- MODULE Spec2Model ----------------------------
(***************************************************************************)
(* Ingestion orchestrator of bmadflow: ProjectDocService.sync_project_doc  *)
(* (backend/app/services/project_doc_service.py) with the document store   *)
(* (DocumentService / DocumentRepository) and the chunk store              *)
(* (ChunkRepository) it drives.  A run is one call of sync_project_doc;    *)
(* every action is the code between two suspension points (awaits).        *)
(* External collaborators (source-control API, chunker, embedder, storage  *)
(* engine) answer nondeterministically: normally or by raising.            *)
(***************************************************************************)
EXTENDS Integers, Sequences, FiniteSets, TLC

\* ---- bounds of the exploration ----------------------------------------
MaxFiles == 6        \* longest file listing of the single-run scenario
ResyncFiles == 1     \* longest file listing of the re-sync scenario
MaxRuns == 2         \* runs of the re-sync scenario
MaxFaults == 2       \* failures the environment injects in one behaviour

\* ---- program constants --------------------------------------------------
BatchSize == 5       \* self._batch(stored_docs, 5)

NoDate == 0          \* a NULL timestamp column
NoPath == 0          \* an error message that names no file
NoResult == [none |-> TRUE]
Unset == -1          \* last_commit_date not assigned yet

ProjectDocIds == {1, 2}          \* rows of project_docs
UnknownId == 3                   \* an id with no project_docs row
RemoteDates == {100}             \* date the remote reports for its last commit

Min(a, b) == IF a < b THEN a ELSE b

\* The listed files are docs/file1.md, docs/file2.csv, docs/file3.txt,
\* docs/file4.json, docs/file5.md, ... ; a path is its number.
\* store_document: file_type = file_name.split(".")[-1]
FileType(p) ==
    CASE p % 4 = 3 -> "txt"
      [] p % 4 = 2 -> "csv"
      [] p % 4 = 0 -> "json"
      [] OTHER     -> "md"

\* Number of chunks the external chunker emits for a file (file5 is a
\* document for which it emits nothing).
NumChunks(p) == IF p = 5 THEN 0 ELSE 1 + (p % 2)

VARIABLES
    clock,              \* wall clock
    projectDocs,        \* project_docs table: id -> row
    documents,          \* documents table: set of rows
    nextDocId,          \* next fresh document id (uuid4)
    chunks,             \* chunks table: set of rows
    phase,              \* position of the run
    run,                \* number of runs started
    pd,                 \* project_doc_id argument of the run
    files,              \* files: result of fetch_repository_tree
    dlIdx,              \* position of the download loop
    downloaded_files,   \* downloaded_files
    errors,             \* errors
    stIdx,              \* position of the loop of store_documents_batch
    stored_docs,        \* stored_docs
    batch,              \* batch_idx
    task,               \* state of the embed task of each stored document
    pending,            \* per session: chunk rows added, not yet committed
    embeddings_created, \* embeddings_created
    failed_files,       \* failed_files
    last_commit_date,   \* last_commit_date
    result,             \* the SyncResult returned by the last run
    limits,             \* scenario: listing length, number of runs, ids
    fault,              \* history: the failures of this run, each [kind, path]
    nfaults,            \* history: failures injected so far
    requested,          \* history: paths passed to download_file_content
    atStart             \* history: the tables when the run started

dbVars == <<projectDocs, documents, nextDocId, chunks>>
runVars == <<phase, run, pd, files, dlIdx, downloaded_files, errors, stIdx,
             stored_docs, batch, task, pending, embeddings_created,
             failed_files, last_commit_date, result>>
histVars == <<limits, fault, nfaults, requested, atStart>>

\* ---- state of EmbeddingService.generate_embeddings_batch -----------------
VARIABLES
    embState,           \* position of the call: idle, calling, sleeping, ...
    texts,              \* len(texts) of the call
    text_idx,           \* the text generate_embedding is called for
    attempt_number,     \* retry_state.attempt_number of that call
    embeddings,         \* embeddings
    embError,           \* the exception that left the call
    calls,              \* history: the calls of ollama.embeddings
    sleeps              \* history: the waits between attempts

embVars == <<embState, texts, text_idx, attempt_number, embeddings, embError,
             calls, sleeps>>

\* ---- state of GitHubService ------------------------------------------------
VARIABLES
    ghState,            \* position of the call: idle, tree, raw, contents, ended
    ghOps,              \* calls of the service started
    request,            \* the last request issued, with the response before it
    lastResponse,       \* the last answer of the remote
    ghOutcome           \* what the last call returned or raised

ghVars == <<ghState, ghOps, request, lastResponse, ghOutcome>>

\* ---- state of RAGAgent.process_query -------------------------------------
VARIABLES
    ragState,           \* position of the call: idle, embedding, generating, ...
    agentProject,       \* self.project_id
    top_k,              \* self.top_k
    results,            \* what similarity_search returned
    chunk_results,      \* what VectorSearchTool.execute returned
    context,            \* the context passed to the completion provider
    llmCalls,           \* calls of generate_completion
    response,           \* the RAGResponse returned
    ragError            \* the exception that left process_query

ragVars == <<ragState, agentProject, top_k, results, chunk_results, context, llmCalls,
             response, ragError>>

\* ---- state of LLMService.generate_completion -------------------------------
VARIABLES
    llmState,           \* position of the call: idle, calling, done
    environ,            \* the API keys os.getenv finds
    provider,           \* the row get_by_id returned
    llm_attempt,        \* tenacity's attempt number of the provider call
    provider_calls,     \* the requests sent to the provider, with their replies
    llm_sleeps,         \* the waits between attempts
    llmOutcome,         \* what generate_completion returned or raised
    completions         \* calls of generate_completion so far

llmVars == <<llmState, environ, provider, llm_attempt, provider_calls, llm_sleeps,
             llmOutcome, completions>>

\* ---- state of a call of find_nearest_header ---------------------------------
VARIABLES
    mdState,            \* position of the call: idle, called, returned
    headers,            \* the argument headers
    chunk_position,     \* the argument chunk_position
    header_anchor       \* the value returned

mdVars == <<mdState, headers, chunk_position, header_anchor>>

\* ---- state of LLMProviderRepository ----------------------------------------
VARIABLES
    llm_providers,      \* the rows of the llm_providers table
    nextProviderId,     \* the id the next created row gets
    provOps,            \* repository calls so far
    provOutcome         \* the last call and what it returned or raised

provVars == <<llm_providers, nextProviderId, provOps, provOutcome>>

\* ---- state of two ingestion runs storing into one collection ---------------
VARIABLES
    upsFiles,           \* per run: how many files it downloaded (paths 1..n)
    upsIdx,             \* per run: the index of the file store_documents_batch is at
    existing_doc,       \* per run: what the SELECT of the upsert in progress found
    upsStored           \* per run: stored_docs, the ids of the documents returned

upsVars == <<upsFiles, upsIdx, existing_doc, upsStored>>

\* ---- state of the sync endpoints of one collection ---------------------------
VARIABLES
    syncTask,           \* the background run started by POST .../sync: none, running, ended
    syncRuns,           \* runs started so far, and how many of them returned success=true
    status_response     \* the last SyncStatusResponse, with what was the case when it was built

statVars == <<syncTask, syncRuns, status_response>>

\* ---- state of MessageService.send_message ------------------------------------
VARIABLES
    msgState,           \* position of the call: idle, calling, returned, stored, done, raised
    messages,           \* the committed rows of the messages table, oldest first
    updated_at,         \* conversations.updated_at of the conversation
    msgStart,           \* messages and updated_at when the call started
    agent_result,       \* what generate_rag_response returned or raised
    msgOutcome,         \* what send_message returned or raised
    sends               \* calls of send_message so far

msgVars == <<msgState, messages, updated_at, msgStart, agent_result, msgOutcome, sends>>

\* State of the services added around the retrieval agent.
auxVars == <<llmVars, mdVars, provVars, upsVars, statVars, msgVars>>

\* State of the services other than the ingestion orchestrator.
svcVars == <<embVars, ghVars, ragVars, auxVars>>

\* Everything but the state of the services in auxVars.
coreVars == <<clock, dbVars, runVars, histVars, embVars, ghVars, ragVars>>

\* What a step of each added service leaves alone.
llmFrame == <<coreVars, mdVars, provVars, upsVars, statVars, msgVars>>
mdFrame == <<coreVars, llmVars, provVars, upsVars, statVars, msgVars>>
provFrame == <<coreVars, llmVars, mdVars, upsVars, statVars, msgVars>>
upsFrame == <<clock, projectDocs, chunks, runVars, histVars, embVars, ghVars,
        ragVars, llmVars, mdVars, provVars, statVars, msgVars>>
statFrame == <<documents, nextDocId, chunks, runVars, histVars, embVars, ghVars,
        ragVars, llmVars, mdVars, provVars, upsVars, msgVars>>
msgFrame == <<coreVars, llmVars, mdVars, provVars, upsVars, statVars>>

vars == <<clock, dbVars, runVars, histVars, svcVars>>

Scenarios ==
    { [files |-> MaxFiles, runs |-> 1, ids |-> {1}],
      [files |-> ResyncFiles, runs |-> MaxRuns, ids |-> ProjectDocIds \cup {UnknownId}] }

NoError == [type |-> "none"]

\* No call of the embedding service is in progress.
EmbIdle ==
    /\ embState = "idle"
    /\ texts = 0
    /\ text_idx = 0
    /\ attempt_number = 0
    /\ embeddings = <<>>
    /\ embError = NoError
    /\ calls = <<>>
    /\ sleeps = <<>>

NoRequest == [url |-> "none"]
NoResponse == [kind |-> "none"]
NoOutcome == [kind |-> "none"]

\* No call of the GitHub service was made.
GhIdle ==
    /\ ghState = "idle"
    /\ ghOps = 0
    /\ request = NoRequest
    /\ lastResponse = NoResponse
    /\ ghOutcome = NoOutcome

NoRAGResponse == [none |-> TRUE]

\* No query is being processed.
RagIdle ==
    /\ ragState = "idle"
    /\ agentProject = 0
    /\ top_k = 0
    /\ results = <<>>
    /\ chunk_results = <<>>
    /\ context = <<>>
    /\ llmCalls = 0
    /\ response = NoRAGResponse
    /\ ragError = NoError

NoProvider == [name |-> "none"]

\* generate_completion was never called.
LlmIdle ==
    /\ llmState = "idle"
    /\ environ = {}
    /\ provider = NoProvider
    /\ llm_attempt = 0
    /\ provider_calls = <<>>
    /\ llm_sleeps = <<>>
    /\ llmOutcome = NoOutcome
    /\ completions = 0

\* find_nearest_header is not being called.
MdIdle ==
    /\ mdState = "idle"
    /\ headers = <<>>
    /\ chunk_position = 0
    /\ header_anchor = "unset"

\* The provider repository was not called and the table is not looked at.
ProvIdle ==
    /\ llm_providers = {}
    /\ nextProviderId = 1
    /\ provOps = 0
    /\ provOutcome = NoOutcome

\* No two runs are storing side by side.
UpsIdle ==
    /\ upsFiles = <<>>
    /\ upsIdx = <<>>
    /\ existing_doc = <<>>
    /\ upsStored = <<>>

\* The sync endpoints were not called.
StatIdle ==
    /\ syncTask = "none"
    /\ syncRuns = [started |-> 0, succeeded |-> 0]
    /\ status_response = NoResponse

\* send_message was never called.
MsgIdle ==
    /\ msgState = "idle"
    /\ messages = <<>>
    /\ updated_at = 0
    /\ msgStart = [messages |-> <<>>, updated_at |-> 0]
    /\ agent_result = NoOutcome
    /\ msgOutcome = NoOutcome
    /\ sends = 0

AuxIdle == LlmIdle /\ MdIdle /\ ProvIdle /\ UpsIdle /\ StatIdle /\ MsgIdle

Init ==
    /\ EmbIdle
    /\ GhIdle
    /\ RagIdle
    /\ AuxIdle
    /\ clock = 1
    /\ projectDocs = [i \in ProjectDocIds |->
                        [project_id |-> i, last_synced_at |-> NoDate,
                         last_github_commit_date |-> NoDate]]
    /\ documents = {}
    /\ nextDocId = 1
    /\ chunks = {}
    /\ phase = "idle"
    /\ run = 0
    /\ pd = 0
    /\ files = <<>>
    /\ dlIdx = 1
    /\ downloaded_files = <<>>
    /\ errors = <<>>
    /\ stIdx = 1
    /\ stored_docs = <<>>
    /\ batch = 0
    /\ task = <<>>
    /\ pending = [s \in 0..(MaxFiles + 1) |-> {}]
    /\ embeddings_created = 0
    /\ failed_files = <<>>
    /\ last_commit_date = Unset
    /\ result = NoResult
    /\ limits \in Scenarios
    /\ fault = {}
    /\ nfaults = 0
    /\ requested = {}
    /\ atStart = [documents |-> {}, chunks |-> {}, projectDocs |-> projectDocs]

\* The tables before any run.
EmptyTables ==
    /\ projectDocs = [i \in ProjectDocIds |->
                        [project_id |-> i, last_synced_at |-> NoDate,
                         last_github_commit_date |-> NoDate]]
    /\ documents = {}
    /\ nextDocId = 1
    /\ chunks = {}

\* The orchestrator when no run is started.
NoRun ==
    /\ clock = 1
    /\ phase = "idle"
    /\ run = 0
    /\ pd = 0
    /\ files = <<>>
    /\ dlIdx = 1
    /\ downloaded_files = <<>>
    /\ errors = <<>>
    /\ stIdx = 1
    /\ stored_docs = <<>>
    /\ batch = 0
    /\ task = <<>>
    /\ pending = [s \in 0..(MaxFiles + 1) |-> {}]
    /\ embeddings_created = 0
    /\ failed_files = <<>>
    /\ last_commit_date = Unset
    /\ result = NoResult
    /\ limits = [files |-> 0, runs |-> 0, ids |-> {}]
    /\ fault = {}
    /\ nfaults = 0
    /\ requested = {}
    /\ atStart = [documents |-> {}, chunks |-> {}, projectDocs |-> projectDocs]

\* The tables and the orchestrator when no run is started: the state the
\* embedding service and the GitHub service are studied in.
IngestIdle == EmptyTables /\ NoRun


\* ---- schemas ------------------------------------------------------------
\* An error string; it names a file by containing its path.
ErrorMsg(kind, path) == [kind |-> kind, path |-> path]

\* class SyncResult(BaseModel): the declared fields.  (duration_seconds is
\* left out of the model: no time passes inside one step.)
SyncResultFields == {"success", "files_synced", "files_failed", "errors"}

\* SyncResult(**kw): pydantic keeps the declared fields and ignores every
\* other keyword argument (the default extra="ignore").
SyncResult(kw) == [f \in (DOMAIN kw) \cap SyncResultFields |-> kw[f]]

\* Variant: a handler that reports the failed run as a success.
ExceptResultAsSuccess(filesBound, fs) ==
    SyncResult([success |-> TRUE,
                files_synced |-> 0,
                embeddings_created |-> 0,
                files_failed |-> IF filesBound THEN Len(fs) ELSE 0,
                errors |-> <<ErrorMsg("sync", NoPath)>>])

\* Variant: a handler that lets the exception out; nothing is returned.
ExceptReraise(filesBound, fs) == NoResult

\* The handler `except Exception` of sync_project_doc.
ExceptResult(filesBound, fs) ==
    SyncResult([success |-> FALSE,
                files_synced |-> 0,
                embeddings_created |-> 0,
                files_failed |-> IF filesBound THEN Len(fs) ELSE 0,
                errors |-> <<ErrorMsg("sync", NoPath)>>])

\* The early return for a missing ProjectDoc.
NotFoundResult ==
    SyncResult([success |-> FALSE,
                files_synced |-> 0,
                files_failed |-> 0,
                errors |-> <<ErrorMsg("notfound", NoPath)>>])

\* The SyncResult of a run that reached its end.
FinalResult(stored, created, failed, errs) ==
    SyncResult([success |-> TRUE,
                files_synced |-> Len(stored),
                embeddings_created |-> created,
                files_failed |-> Len(failed),
                errors |-> errs])

\* ---- helpers ------------------------------------------------------------
\* fetch_repository_tree returns the first n files of the repository.
Listing(n) == [i \in 1..n |-> i]

\* ProjectDocService._batch(items, size)
_batch(items, size) ==
    [b \in 1..((Len(items) + size - 1) \div size) |->
        SubSeq(items, (b - 1) * size + 1, Min(b * size, Len(items)))]

\* Variant: every stored document is in the first batch.
BatchRangeAll(b, n) == IF b = 1 THEN 1..n ELSE {}

\* Positions in stored_docs of the documents of batch b of
\* document_batches = self._batch(stored_docs, 5).
BatchRange(b, n) ==
    LET document_batches == _batch(Listing(n), BatchSize)
    IN  IF b \in 1..Len(document_batches)
        THEN {document_batches[b][j] : j \in 1..Len(document_batches[b])}
        ELSE {}

\* Variant: every extension the fetcher admits is sent to the chunker.
SupportedTypesWithTxt == {"md", "markdown", "csv", "yaml", "yml", "json", "txt"}

\* The file types _process_and_embed_document sends to the chunker.
SupportedTypes == {"md", "markdown", "csv", "yaml", "yml", "json"}

\* DoclingService.process_*: ChunkProcessed(text, index=idx) for idx, chunk in
\* enumerate(chunks); the text of the k-th emitted chunk is k.
Chunker(doc) == [k \in 1..NumChunks(doc.file_path) |-> [text |-> k, index |-> k - 1]]

\* Variant: every task writes through one shared session.
SharedSession(k) == 0

\* The session a task writes its chunks through: its own
\* (async with AsyncSessionLocal() as session).
SessionOf(k) == k

\* The ChunkCreate rows built for a document in run r.
ChunkRows(doc, r) ==
    { [document_id |-> doc.id,
       chunk_index |-> Chunker(doc)[k].index,
       chunk_text |-> Chunker(doc)[k].text,
       run |-> r] : k \in 1..Len(Chunker(doc)) }

\* Variant: the SELECT filters on the path only.
ExistingDocByPath(docs, pdid, path) == {d \in docs : d.file_path = path}

\* DocumentRepository.upsert: the SELECT by (project_doc_id, file_path).
ExistingDoc(docs, pdid, path) ==
    {d \in docs : d.project_doc_id = pdid /\ d.file_path = path}

\* UniqueConstraint("project_doc_id", "file_path")
UniqueViolation(docs, row) ==
    \E d \in docs : /\ d.id # row.id
                    /\ d.project_doc_id = row.project_doc_id
                    /\ d.file_path = row.file_path

\* DocumentRepository.upsert after DocumentService.store_document computed the
\* file type: update the row found, else insert a new one.  The outcome is
\* the new table and the row returned, or raised when the insert breaks the
\* unique constraint.
Upsert(docs, pdid, f, newId) ==
    LET found == ExistingDoc(docs, pdid, f.path)
        old == CHOOSE d \in found : TRUE
        upd == [old EXCEPT !.content = f.content,
                           !.file_type = FileType(f.path),
                           !.commit_sha = f.commit_sha]
        new == [id |-> newId, project_doc_id |-> pdid, file_path |-> f.path,
                file_type |-> FileType(f.path), content |-> f.content,
                commit_sha |-> f.commit_sha]
    IN  IF found # {}
        THEN [raised |-> FALSE, docs |-> (docs \ {old}) \cup {upd}, row |-> upd,
              inserted |-> FALSE]
        ELSE IF UniqueViolation(docs, new)
             THEN [raised |-> TRUE, docs |-> docs, row |-> new, inserted |-> FALSE]
             ELSE [raised |-> FALSE, docs |-> docs \cup {new}, row |-> new,
                   inserted |-> TRUE]

\* Variant: the first download failure ends the loop.
AfterDownloadFailBreak(idx, fs) == Len(fs) + 1

\* The except branch of the download loop: log, record, go on with the next file.
AfterDownloadFail(idx, fs) == idx + 1

\* Variant: no fallback value.
FallbackDateNone(now) == NoDate

\* last_commit_date = datetime.now(timezone.utc)  # Fallback to current time
FallbackDate(now) == now

\* Variant: gather without return_exceptions.
ReturnExceptionsOff == FALSE

\* asyncio.gather(*tasks, return_exceptions=True)
ReturnExceptions == TRUE

\* GitHubService.get_last_commit_date: the date of the remote's last commit,
\* or GitHubAPIError.
LastCommitDateReplies ==
    {[raised |-> FALSE, date |-> d] : d \in RemoteDates}
        \cup {[raised |-> TRUE, date |-> NoDate]}

Terminal == {"ok", "skipped", "failed"}

\* Value a finished task contributes to `results`: len(embeddings), or 0.
TaskResult(doc, st) == IF st = "ok" THEN NumChunks(doc.file_path) ELSE 0

RECURSIVE SumResults(_, _, _)
SumResults(docs, ts, ks) ==
    IF ks = {} THEN 0
    ELSE LET k == CHOOSE x \in ks : TRUE
         IN  TaskResult(docs[k], ts[k]) + SumResults(docs, ts, ks \ {k})

\* Paths of the failed documents of batch b, in batch order.
FailedPaths(docs, ts, b) ==
    LET lo == (b - 1) * BatchSize + 1
        hi == Min(b * BatchSize, Len(docs))
        zipped == [j \in 1..(hi - lo + 1) |->
                      [path |-> docs[lo + j - 1].file_path, st |-> ts[lo + j - 1]]]
        failedZ == SelectSeq(zipped, LAMBDA z : z.st = "failed")
    IN  [j \in 1..Len(failedZ) |-> failedZ[j].path]

CanFail == nfaults < MaxFaults

\* A failure of a collaborator, as recorded in the history.
Fault(kind, path) == [kind |-> kind, path |-> path]
FaultKinds == {f.kind : f \in fault}
Failed(kind) == {f.path : f \in {g \in fault : g.kind = kind}}


\* ---- the run ------------------------------------------------------------
\* Entering step 4 with the stored documents S: the tasks of the first batch
\* are created; with no document the run is at step 5.
StartEmbedding(S) ==
    /\ batch' = IF Len(S) = 0 THEN 0 ELSE 1
    /\ task' = [k \in 1..Len(S) |-> IF k \in BatchRange(1, Len(S)) THEN "new" ELSE "waiting"]
    /\ phase' = IF Len(S) = 0 THEN "finalizing" ELSE "embedding"

\* Variant: the first downloaded file is stored while the loop is not over.
AfterDownloadEager(idx, fs, D) ==
    IF Len(D) > 0
    THEN /\ phase' = "storing"
         /\ UNCHANGED <<batch, task>>
    ELSE IF idx <= Len(fs)
         THEN /\ phase' = "downloading"
              /\ UNCHANGED <<batch, task>>
         ELSE StartEmbedding(<<>>)

\* Leaving one iteration of the download loop with the list D downloaded.
AfterDownload(idx, fs, D) ==
    IF idx <= Len(fs)
    THEN /\ phase' = "downloading"
         /\ UNCHANGED <<batch, task>>
    ELSE IF Len(D) > 0
         THEN /\ phase' = "storing"
              /\ UNCHANGED <<batch, task>>
         ELSE StartEmbedding(<<>>)

\* Leaving one iteration of store_documents_batch with the list S stored.
AfterStore(idx, D, S) ==
    IF idx <= Len(D)
    THEN /\ phase' = "storing"
         /\ UNCHANGED <<batch, task>>
    ELSE StartEmbedding(S)

\* A call of sync_project_doc(db, id) begins.
StartRun(id) ==
    /\ UNCHANGED svcVars
    /\ phase \in {"idle", "done", "failed"}
    /\ run < limits.runs
    /\ id \in limits.ids
    /\ phase' = "fetching"
    /\ run' = run + 1
    /\ pd' = id
    /\ clock' = clock + 1
    /\ files' = <<>>
    /\ dlIdx' = 1
    /\ downloaded_files' = <<>>
    /\ errors' = <<>>
    /\ stIdx' = 1
    /\ stored_docs' = <<>>
    /\ batch' = 0
    /\ task' = <<>>
    /\ embeddings_created' = 0
    /\ failed_files' = <<>>
    /\ last_commit_date' = Unset
    /\ result' = NoResult
    /\ fault' = {}
    /\ requested' = {}
    /\ atStart' = [documents |-> documents, chunks |-> chunks, projectDocs |-> projectDocs]
    /\ UNCHANGED <<dbVars, pending, limits, nfaults>>

\* project_doc_repo.get_by_id returned None.
NotFound ==
    /\ UNCHANGED svcVars
    /\ phase = "fetching"
    /\ pd \notin DOMAIN projectDocs
    /\ result' = NotFoundResult
    /\ phase' = "failed"
    /\ UNCHANGED <<clock, dbVars, run, pd, files, dlIdx, downloaded_files, errors, stIdx,
                   stored_docs, batch, task, pending, embeddings_created, failed_files,
                   last_commit_date, histVars>>

\* project_doc_repo.get_by_id raised.
LookupFail ==
    /\ UNCHANGED svcVars
    /\ phase = "fetching"
    /\ CanFail
    /\ result' = ExceptResult(FALSE, files)
    /\ phase' = "failed"
    /\ fault' = fault \cup {Fault("lookup", NoPath)}
    /\ nfaults' = nfaults + 1
    /\ UNCHANGED <<clock, dbVars, run, pd, files, dlIdx, downloaded_files, errors, stIdx,
                   stored_docs, batch, task, pending, embeddings_created, failed_files,
                   last_commit_date, limits, requested, atStart>>

\* Step 1: fetch_repository_tree returned n files.
FetchTreeOk(n) ==
    /\ UNCHANGED svcVars
    /\ phase = "fetching"
    /\ pd \in DOMAIN projectDocs
    /\ n \in 0..limits.files
    /\ files' = Listing(n)
    /\ AfterDownload(1, Listing(n), <<>>)
    /\ UNCHANGED <<clock, dbVars, run, pd, dlIdx, downloaded_files, errors, stIdx,
                   stored_docs, pending, embeddings_created, failed_files,
                   last_commit_date, result, histVars>>

\* Step 1: fetch_repository_tree raised.
FetchTreeFail ==
    /\ UNCHANGED svcVars
    /\ phase = "fetching"
    /\ pd \in DOMAIN projectDocs
    /\ CanFail
    /\ result' = ExceptResult(FALSE, files)
    /\ phase' = "failed"
    /\ fault' = fault \cup {Fault("listing", NoPath)}
    /\ nfaults' = nfaults + 1
    /\ UNCHANGED <<clock, dbVars, run, pd, files, dlIdx, downloaded_files, errors, stIdx,
                   stored_docs, batch, task, pending, embeddings_created, failed_files,
                   last_commit_date, limits, requested, atStart>>

\* Step 2: download_file_content returned the content of files[dlIdx]; the
\* remote content and revision of a run are tagged by the run's number.
DownloadOk ==
    /\ UNCHANGED svcVars
    /\ phase = "downloading"
    /\ LET p == files[dlIdx]
           D == Append(downloaded_files, [path |-> p, content |-> run, commit_sha |-> run])
       IN  /\ requested' = requested \cup {p}
           /\ downloaded_files' = D
           /\ dlIdx' = dlIdx + 1
           /\ AfterDownload(dlIdx + 1, files, D)
    /\ UNCHANGED <<clock, dbVars, run, pd, files, errors, stIdx, stored_docs, pending,
                   embeddings_created, failed_files, last_commit_date, result,
                   limits, fault, nfaults, atStart>>

\* Step 2: download_file_content raised for files[dlIdx].
DownloadFail ==
    /\ UNCHANGED svcVars
    /\ phase = "downloading"
    /\ CanFail
    /\ LET p == files[dlIdx]
       IN  /\ requested' = requested \cup {p}
           /\ errors' = Append(errors, ErrorMsg("download", p))
           /\ dlIdx' = AfterDownloadFail(dlIdx, files)
           /\ AfterDownload(AfterDownloadFail(dlIdx, files), files, downloaded_files)
    /\ fault' = fault \cup {Fault("download", files[dlIdx])}
    /\ nfaults' = nfaults + 1
    /\ UNCHANGED <<clock, dbVars, run, pd, files, downloaded_files, stIdx, stored_docs,
                   pending, embeddings_created, failed_files, last_commit_date, result,
                   limits, atStart>>

\* Step 3: store_document of downloaded_files[stIdx] ran upsert to its end; an
\* IntegrityError of the insert is caught like any other failure.
StoreOk ==
    /\ UNCHANGED svcVars
    /\ phase = "storing"
    /\ LET f == downloaded_files[stIdx]
           u == Upsert(documents, pd, f, nextDocId)
           S == IF u.raised THEN stored_docs ELSE Append(stored_docs, u.row)
       IN  /\ documents' = u.docs
           /\ nextDocId' = IF u.inserted THEN nextDocId + 1 ELSE nextDocId
           /\ stored_docs' = S
           /\ fault' = IF u.raised THEN fault \cup {Fault("store", f.path)} ELSE fault
           /\ stIdx' = stIdx + 1
           /\ AfterStore(stIdx + 1, downloaded_files, S)
    /\ UNCHANGED <<clock, projectDocs, chunks, run, pd, files, dlIdx, downloaded_files,
                   errors, pending, embeddings_created, failed_files, last_commit_date,
                   result, limits, nfaults, requested, atStart>>

\* Step 3: store_document raised (the storage engine failed; the transaction
\* is rolled back); store_documents_batch logs it and goes on.
StoreFail ==
    /\ UNCHANGED svcVars
    /\ phase = "storing"
    /\ CanFail
    /\ LET f == downloaded_files[stIdx]
       IN  /\ fault' = fault \cup {Fault("store", f.path)}
           /\ stIdx' = stIdx + 1
           /\ AfterStore(stIdx + 1, downloaded_files, stored_docs)
    /\ nfaults' = nfaults + 1
    /\ UNCHANGED <<clock, dbVars, run, pd, files, dlIdx, downloaded_files, errors,
                   stored_docs, pending, embeddings_created, failed_files,
                   last_commit_date, result, limits, requested, atStart>>


\* ---- step 4: one task per document of the batch, run by asyncio.gather ---
taskFrame == <<clock, projectDocs, documents, nextDocId, phase, run, pd, files, dlIdx,
               downloaded_files, errors, stIdx, stored_docs, batch, embeddings_created,
               failed_files, last_commit_date, result, limits, requested, atStart>>

\* _process_and_embed_document returns 0: the file type is not supported, or
\* the chunker emitted no chunk.
TaskSkip(k) ==
    /\ UNCHANGED svcVars
    /\ phase = "embedding"
    /\ k \in DOMAIN task
    /\ task[k] = "new"
    /\ \/ stored_docs[k].file_type \notin SupportedTypes
       \/ Len(Chunker(stored_docs[k])) = 0
    /\ task' = [task EXCEPT ![k] = "skipped"]
    /\ UNCHANGED <<taskFrame, chunks, pending, fault, nfaults>>

\* The chunker and the embedder answered and the ChunkCreate rows were built:
\* the task opens its session and add_all()s the rows (create_chunks_batch
\* with auto_commit=False); nothing is written to the table yet.
TaskAdd(k) ==
    /\ UNCHANGED svcVars
    /\ phase = "embedding"
    /\ k \in DOMAIN task
    /\ task[k] = "new"
    /\ stored_docs[k].file_type \in SupportedTypes
    /\ Len(Chunker(stored_docs[k])) > 0
    /\ pending' = [pending EXCEPT ![SessionOf(k)] = @ \cup ChunkRows(stored_docs[k], run)]
    /\ task' = [task EXCEPT ![k] = "added"]
    /\ UNCHANGED <<taskFrame, chunks, fault, nfaults>>

\* The chunker, the embedder or the ChunkCreate validation raised.
TaskRaise(k) ==
    /\ UNCHANGED svcVars
    /\ phase = "embedding"
    /\ k \in DOMAIN task
    /\ task[k] = "new"
    /\ stored_docs[k].file_type \in SupportedTypes
    /\ CanFail
    /\ task' = [task EXCEPT ![k] = "failed"]
    /\ fault' = fault \cup {Fault("embed", stored_docs[k].file_path)}
    /\ nfaults' = nfaults + 1
    /\ UNCHANGED <<taskFrame, chunks, pending>>

\* await session.commit(): every row pending in the task's session is written.
TaskCommit(k) ==
    /\ UNCHANGED svcVars
    /\ phase = "embedding"
    /\ k \in DOMAIN task
    /\ task[k] = "added"
    /\ chunks' = chunks \cup pending[SessionOf(k)]
    /\ pending' = [pending EXCEPT ![SessionOf(k)] = {}]
    /\ task' = [task EXCEPT ![k] = "ok"]
    /\ UNCHANGED <<taskFrame, fault, nfaults>>

\* await session.commit() raised: the session's transaction is rolled back.
TaskCommitFail(k) ==
    /\ UNCHANGED svcVars
    /\ phase = "embedding"
    /\ k \in DOMAIN task
    /\ task[k] = "added"
    /\ CanFail
    /\ pending' = [pending EXCEPT ![SessionOf(k)] = {}]
    /\ task' = [task EXCEPT ![k] = "failed"]
    /\ fault' = fault \cup {Fault("embed", stored_docs[k].file_path)}
    /\ nfaults' = nfaults + 1
    /\ UNCHANGED <<taskFrame, chunks>>

\* gather returned: the loop over zip(batch, results), then the next batch or
\* step 5.  Without return_exceptions the first exception of a task would
\* leave gather and reach the handler of sync_project_doc.
CollectBatch ==
    /\ UNCHANGED svcVars
    /\ phase = "embedding"
    /\ LET n == Len(stored_docs)
           ks == BatchRange(batch, n)
           newFailed == FailedPaths(stored_docs, task, batch)
       IN  /\ \A k \in ks : task[k] \in Terminal
           /\ IF ReturnExceptions \/ newFailed = <<>>
              THEN /\ failed_files' = failed_files \o newFailed
                   /\ errors' = errors \o [j \in 1..Len(newFailed) |->
                                              ErrorMsg("embed", newFailed[j])]
                   /\ embeddings_created' =
                          embeddings_created + SumResults(stored_docs, task, ks)
                   /\ IF BatchRange(batch + 1, n) # {}
                      THEN /\ batch' = batch + 1
                           /\ task' = [k \in 1..n |->
                                         IF k \in BatchRange(batch + 1, n)
                                         THEN "new" ELSE task[k]]
                           /\ phase' = "embedding"
                      ELSE /\ phase' = "finalizing"
                           /\ UNCHANGED <<batch, task>>
                   /\ UNCHANGED result
              ELSE /\ result' = ExceptResult(TRUE, files)
                   /\ phase' = "failed"
                   /\ UNCHANGED <<failed_files, errors, embeddings_created, batch, task>>
    /\ UNCHANGED <<clock, dbVars, run, pd, files, dlIdx, downloaded_files, stIdx,
                   stored_docs, pending, last_commit_date, histVars>>

\* ---- steps 5 and 6 --------------------------------------------------------
\* Step 5: get_last_commit_date answered; on GitHubAPIError the current time
\* is taken.
FetchLastCommitDate ==
    /\ UNCHANGED svcVars
    /\ phase = "finalizing"
    /\ last_commit_date = Unset
    /\ \E r \in LastCommitDateReplies :
          IF r.raised
          THEN /\ CanFail
               /\ last_commit_date' = FallbackDate(clock + 1)
               /\ fault' = fault \cup {Fault("date", NoPath)}
               /\ nfaults' = nfaults + 1
          ELSE /\ last_commit_date' = r.date
               /\ UNCHANGED <<fault, nfaults>>
    /\ clock' = clock + 1
    /\ UNCHANGED <<dbVars, phase, run, pd, files, dlIdx, downloaded_files, errors, stIdx,
                   stored_docs, batch, task, pending, embeddings_created, failed_files,
                   result, limits, requested, atStart>>

\* Step 6: the two timestamps are assigned and db.commit() succeeded; the
\* SyncResult of the run is returned.
CommitTimestamps ==
    /\ UNCHANGED svcVars
    /\ phase = "finalizing"
    /\ last_commit_date # Unset
    /\ projectDocs' = [projectDocs EXCEPT ![pd] =
                          [@ EXCEPT !.last_synced_at = clock,
                                    !.last_github_commit_date = last_commit_date]]
    /\ result' = FinalResult(stored_docs, embeddings_created, failed_files, errors)
    /\ phase' = "done"
    /\ UNCHANGED <<clock, documents, nextDocId, chunks, run, pd, files, dlIdx,
                   downloaded_files, errors, stIdx, stored_docs, batch, task, pending,
                   embeddings_created, failed_files, last_commit_date, histVars>>

\* Step 6: db.commit() raised; the handler of sync_project_doc answers.
CommitTimestampsFail ==
    /\ UNCHANGED svcVars
    /\ phase = "finalizing"
    /\ last_commit_date # Unset
    /\ CanFail
    /\ result' = ExceptResult(TRUE, files)
    /\ phase' = "failed"
    /\ fault' = fault \cup {Fault("commit", NoPath)}
    /\ nfaults' = nfaults + 1
    /\ UNCHANGED <<clock, dbVars, run, pd, files, dlIdx, downloaded_files, errors, stIdx,
                   stored_docs, batch, task, pending, embeddings_created, failed_files,
                   last_commit_date, limits, requested, atStart>>

Next ==
    \/ \E id \in ProjectDocIds \cup {UnknownId} : StartRun(id)
    \/ NotFound
    \/ LookupFail
    \/ \E n \in 0..MaxFiles : FetchTreeOk(n)
    \/ FetchTreeFail
    \/ DownloadOk
    \/ DownloadFail
    \/ StoreOk
    \/ StoreFail
    \/ \E k \in 1..(MaxFiles + 1) : TaskSkip(k)
    \/ \E k \in 1..(MaxFiles + 1) : TaskAdd(k)
    \/ \E k \in 1..(MaxFiles + 1) : TaskRaise(k)
    \/ \E k \in 1..(MaxFiles + 1) : TaskCommit(k)
    \/ \E k \in 1..(MaxFiles + 1) : TaskCommitFail(k)
    \/ CollectBatch
    \/ FetchLastCommitDate
    \/ CommitTimestamps
    \/ CommitTimestampsFail

Spec == Init /\ [][Next]_vars


\* ---- properties ----------------------------------------------------------
Range(q) == {q[i] : i \in DOMAIN q}
Ended == phase \in {"done", "failed"}
\* The run found its ProjectDoc and its file listing.
Listed == pd \in DOMAIN projectDocs /\ FaultKinds \cap {"lookup", "listing"} = {}
PastDownloading == \/ phase \in {"storing", "embedding", "finalizing"}
                   \/ Ended /\ Listed
PastStoring == \/ phase \in {"embedding", "finalizing"}
               \/ Ended /\ Listed

C2_ResultCounts ==
    phase = "done" =>
        /\ result.files_synced =
               Len(downloaded_files) - Cardinality(Failed("store"))
        /\ result.files_failed = Cardinality(Failed("embed"))
        /\ result.files_failed <= result.files_synced
        /\ "embeddings_created" \in DOMAIN result
        /\ result.embeddings_created =
               Cardinality({c \in chunks : c.run = run})

\* C3: a run whose file listing failed returns success=false, files_synced=0
\* and one error; it requested no download and left documents, chunks and
\* the collection's last_synced_at as they were.
C3_ListingFailure ==
    "listing" \in FaultKinds =>
        /\ phase = "failed"
        /\ result.success = FALSE
        /\ result.files_synced = 0
        /\ Len(result.errors) = 1
        /\ requested = {}
        /\ downloaded_files = <<>>
        /\ documents = atStart.documents
        /\ chunks = atStart.chunks
        /\ projectDocs[pd].last_synced_at = atStart.projectDocs[pd].last_synced_at

\* The listing failed in a re-sync of a collection that holds documents.
C3_Witness ==
    /\ "listing" \in FaultKinds
    /\ phase = "failed"
    /\ \E d \in documents : d.project_doc_id = pd
    /\ projectDocs[pd].last_synced_at # NoDate

C6_GaplessIndices ==
    \A d \in documents :
        LET rows == {c \in chunks : c.document_id = d.id}
        IN  /\ \A i \in 0..(Cardinality(rows) - 1) :
                  Cardinality({c \in rows : c.chunk_index = i}) = 1
            /\ \A c \in rows : c.chunk_text = c.chunk_index + 1

\* C7: at most one Document exists per (project_doc_id, file_path), and a
\* store of a downloaded file leaves exactly one row for its path, carrying
\* the downloaded content and revision; when a row for the path existed it is
\* that row (same id) and no row was added.
C7_UniqueDocumentPerPath ==
    /\ [](\A d1 \in documents : \A d2 \in documents :
             (d1.project_doc_id = d2.project_doc_id /\ d1.file_path = d2.file_path)
                 => d1 = d2)
    /\ [][(phase = "storing" /\ stored_docs' # stored_docs) =>
             LET f == downloaded_files[stIdx]
                 old == {d \in documents :
                            d.project_doc_id = pd /\ d.file_path = f.path}
                 new == {d \in documents' :
                            d.project_doc_id = pd /\ d.file_path = f.path}
             IN  /\ Cardinality(new) = 1
                 /\ \A n \in new : /\ n.content = f.content
                                   /\ n.commit_sha = f.commit_sha
                                   /\ \A o \in old : o.id = n.id
                 /\ old # {} => Cardinality(documents') = Cardinality(documents)
                 /\ \A d \in documents : d \notin old => d \in documents'
          ]_vars

\* A second run re-ingested a path of its collection: the row kept its id and
\* carries the content of the second run, and the table has one row.
C7_Witness ==
    /\ run = 2
    /\ Cardinality(documents) = 1
    /\ \E d \in documents : \E o \in atStart.documents :
          /\ d.id = o.id
          /\ d.project_doc_id = pd
          /\ o.content = 1
          /\ d.content = 2

\* C8: every file that failed at a per-file step (download, storage,
\* chunk/embed/index) has an entry naming its path in the error list of the
\* SyncResult.
C8_EveryFailedFileReported ==
    phase = "done" =>
        \A f \in fault :
            f.kind \in {"download", "store", "embed"} =>
                \E i \in DOMAIN result.errors : result.errors[i].path = f.path

C10_DownloadFailureCounts ==
    (phase = "done" /\ FaultKinds \subseteq {"download"}) =>
        LET n == Len(files)
            k == Cardinality(Failed("download"))
        IN  /\ result.success = TRUE
            /\ result.files_synced = n - k
            /\ Len(result.errors) = k
            /\ result.files_failed = k

\* Tasks of the embedding stage that were started and have not finished.
InFlight == {k \in DOMAIN task : task[k] \in {"new", "added"}}

\* C11: during the embedding stage at most 5 documents are being processed
\* at any moment, and no document of a later batch of five has started while
\* a document of an earlier batch has not finished (succeeded, skipped or
\* failed).
C11_BoundedBatches ==
    /\ Cardinality(InFlight) <= 5
    /\ \A i \in DOMAIN task : \A j \in DOMAIN task :
          ((i - 1) \div 5 < (j - 1) \div 5 /\ task[j] # "waiting")
              => task[i] \in Terminal

\* Five documents are processed at once while the sixth one waits.
C11_Witness ==
    /\ phase = "embedding"
    /\ Len(stored_docs) = 6
    /\ Cardinality({k \in DOMAIN task : task[k] = "added"}) >= 2
    /\ Cardinality(InFlight) = 5
    /\ task[6] = "waiting"

PhaseRank(ph) ==
    CASE ph = "idle"        -> 0
      [] ph = "fetching"    -> 1
      [] ph = "downloading" -> 2
      [] ph = "storing"     -> 3
      [] ph = "embedding"   -> 4
      [] ph = "finalizing"  -> 5
      [] OTHER              -> 6

\* C12: a run goes through fetching, downloading, storing, embedding,
\* finalizing in that order and ends in done or failed: a download is
\* requested only for a file of the returned list, a document is stored only
\* after every download was attempted, a task starts only after storing
\* finished, and the timestamps are written only in the step that ends a run
\* all of whose tasks have finished.
C12_PhaseOrder ==
    /\ [](/\ requested # {} => (phase # "fetching" /\ requested \subseteq Range(files))
          /\ (stIdx > 1 \/ stored_docs # <<>>) => dlIdx > Len(files)
          /\ (\E k \in DOMAIN task : task[k] # "waiting") =>
                 (dlIdx > Len(files) /\ stIdx > Len(downloaded_files))
          /\ phase = "done" => (\A k \in DOMAIN task : task[k] \in Terminal))
    /\ [][/\ phase' # phase =>
                \/ phase' = "fetching" /\ phase \in {"idle", "done", "failed"}
                \/ /\ phase \notin {"idle", "done", "failed"}
                   /\ PhaseRank(phase) < PhaseRank(phase')
                   /\ phase' = "done" => phase = "finalizing"
          /\ requested' # requested => (phase = "downloading" \/ phase' = "fetching")
          /\ documents' # documents => phase = "storing"
          /\ chunks' # chunks => phase = "embedding"
          /\ projectDocs' # projectDocs =>
                /\ phase = "finalizing" /\ phase' = "done"
                /\ Len(task) = Len(stored_docs)
                /\ \A k \in DOMAIN task : task[k] \in Terminal
         ]_vars

\* A run of two batches went through every phase and wrote its timestamps.
C12_Witness ==
    /\ phase = "done"
    /\ Len(stored_docs) > 5
    /\ chunks # {}
    /\ projectDocs[pd].last_synced_at = clock

\* ---- EmbeddingService -----------------------------------------------------
MaxTexts == 2        \* most texts passed to one generate_embeddings_batch

\* self.embedding_dim = 768
EmbeddingDim == 768

\* @retry(stop=stop_after_attempt(3), ...)
StopAfterAttempt == 3

\* Variant: the dimension error is retried as well.
RetryOnValueError == {"ConnectionError", "TimeoutError", "ValueError"}

\* retry=retry_if_exception_type((ConnectionError, TimeoutError))
RetryOn == {"ConnectionError", "TimeoutError"}

\* wait=wait_exponential(multiplier=1, max=30): the wait that follows
\* attempt n is multiplier * 2^(n-1) seconds, at most max.
WaitExponential(n) == Min(1 * 2^(n - 1), 30)

\* What ollama.embeddings can answer: a response whose "embedding" has some
\* length (0: the key is missing), or an exception.  ResponseError stands for
\* every exception that is neither a ConnectionError, a TimeoutError nor a
\* ValueError (the server rejected the request).
Replies ==
    {[kind |-> "vector", len |-> n] : n \in {0, 512, EmbeddingDim}}
        \cup {[kind |-> "raise", type |-> t] :
                 t \in {"ConnectionError", "TimeoutError", "ResponseError"}}

\* One execution of the body of generate_embedding on the reply r: the
\* vector returned, or the exception that leaves the body.
Body(r, t, n) ==
    IF r.kind = "vector"
    THEN IF r.len # EmbeddingDim
         THEN [raised |-> TRUE, type |-> "ValueError", cause |-> "dimension"]
         ELSE [raised |-> FALSE, value |-> [len |-> r.len, text |-> t, attempt |-> n]]
    ELSE IF r.type \in {"ConnectionError", "TimeoutError", "ValueError"}
         THEN [raised |-> TRUE, type |-> r.type, cause |-> r.type]
         ELSE [raised |-> TRUE, type |-> "ConnectionError", cause |-> r.type]

\* ChunkCreate.validate_embedding_dimension
ChunkCreateValid(v) == v.len = 768

\* The ChunkCreate rows _process_and_embed_document builds from the
\* embeddings of the chunks of a document.
EmbeddedRows(embs) ==
    { [document_id |-> 1, chunk_index |-> i - 1, chunk_text |-> i, run |-> 0,
       embedding |-> embs[i].len] : i \in DOMAIN embs }

embFrame == <<projectDocs, documents, nextDocId, runVars, histVars, ghVars, ragVars,
              auxVars>>

\* generate_embeddings_batch(texts) is called with n chunk texts.
GenerateEmbeddingsBatch(n) ==
    /\ embState = "idle"
    /\ n \in 1..MaxTexts
    /\ texts' = n
    /\ text_idx' = 1
    /\ attempt_number' = 1
    /\ embState' = "calling"
    /\ UNCHANGED <<embeddings, embError, calls, sleeps, clock, chunks, embFrame>>

\* ollama.embeddings answered r to the current attempt: the body returns or
\* raises, and the retry decorator returns the value, schedules the next
\* attempt, or lets the exception out.
EndpointReply(r) ==
    /\ embState = "calling"
    /\ r \in Replies
    /\ calls' = Append(calls, [text |-> text_idx, attempt |-> attempt_number, reply |-> r])
    /\ LET out == Body(r, text_idx, attempt_number)
       IN  IF ~out.raised
           THEN /\ embeddings' = Append(embeddings, out.value)
                /\ IF text_idx < texts
                   THEN /\ text_idx' = text_idx + 1
                        /\ attempt_number' = 1
                        /\ embState' = "calling"
                   ELSE /\ embState' = "returned"
                        /\ UNCHANGED <<text_idx, attempt_number>>
                /\ UNCHANGED embError
           ELSE IF out.type \in RetryOn /\ attempt_number < StopAfterAttempt
                THEN /\ embState' = "sleeping"
                     /\ UNCHANGED <<embeddings, embError, text_idx, attempt_number>>
                ELSE /\ embState' = "raised"
                     /\ embError' = [type |-> out.type, cause |-> out.cause]
                     /\ UNCHANGED <<embeddings, text_idx, attempt_number>>
    /\ UNCHANGED <<texts, sleeps, clock, chunks, embFrame>>

\* The wait between two attempts is over.
Backoff ==
    /\ embState = "sleeping"
    /\ sleeps' = Append(sleeps, [text |-> text_idx, after |-> attempt_number,
                                 secs |-> WaitExponential(attempt_number)])
    /\ clock' = clock + WaitExponential(attempt_number)
    /\ attempt_number' = attempt_number + 1
    /\ embState' = "calling"
    /\ UNCHANGED <<texts, text_idx, embeddings, embError, calls, chunks, embFrame>>

\* _process_and_embed_document after generate_embeddings_batch returned: the
\* ChunkCreate objects are validated, added and committed.
StoreChunks ==
    /\ embState = "returned"
    /\ IF \A i \in DOMAIN embeddings : ChunkCreateValid(embeddings[i])
       THEN /\ chunks' = chunks \cup EmbeddedRows(embeddings)
            /\ embState' = "stored"
            /\ UNCHANGED embError
       ELSE /\ embState' = "rejected"
            /\ embError' = [type |-> "ValueError", cause |-> "ChunkCreate"]
            /\ UNCHANGED chunks
    /\ UNCHANGED <<texts, text_idx, attempt_number, embeddings, calls, sleeps,
                   clock, embFrame>>

\* Every service is idle and no run was started.
ServicesInit == IngestIdle /\ EmbIdle /\ GhIdle /\ RagIdle /\ AuxIdle

EmbedInit == ServicesInit

EmbedNext ==
    \/ \E n \in 1..MaxTexts : GenerateEmbeddingsBatch(n)
    \/ \E r \in Replies : EndpointReply(r)
    \/ Backoff
    \/ StoreChunks

EmbedSpec == EmbedInit /\ [][EmbedNext]_vars

\* The endpoint calls made for text t.
CallsFor(t) == {i \in DOMAIN calls : calls[i].text = t}

\* C13: an attempt is followed by another one only when the endpoint call
\* failed with a connection or timeout error; a text gets at most 3
\* attempts; the wait after attempt n is 2^(n-1) seconds (1s, 2s, 4s); a
\* successful attempt is the last one for its text and its vector is the one
\* returned; and the error raised after a third failed attempt is the error
\* of the endpoint call.
C13_RetryOnlyTransient ==
    /\ \A i \in DOMAIN calls :
          /\ calls[i].attempt <= 3
          /\ (i < Len(calls) /\ calls[i + 1].text = calls[i].text) =>
                /\ calls[i].reply.kind = "raise"
                /\ calls[i].reply.type \in {"ConnectionError", "TimeoutError"}
                /\ calls[i + 1].attempt = calls[i].attempt + 1
          /\ (calls[i].reply.kind = "vector" /\ calls[i].reply.len = 768) =>
                /\ \A j \in DOMAIN calls : j > i => calls[j].text # calls[i].text
                /\ embeddings[calls[i].text] =
                       [len |-> 768, text |-> calls[i].text, attempt |-> calls[i].attempt]
    /\ \A i \in DOMAIN sleeps :
          /\ sleeps[i].secs = 2^(sleeps[i].after - 1)
          /\ sleeps[i].secs \in {1, 2, 4}
    /\ (embState = "raised" /\ calls[Len(calls)].attempt = 3
            /\ calls[Len(calls)].reply.kind = "raise") =>
          embError.type = calls[Len(calls)].reply.type

\* C14: a response whose embedding has not 768 entries is the last endpoint
\* call of generate_embedding, which raises the dimension error (when it
\* answers the first attempt the text has had exactly one call); every
\* embedding returned and every chunk persisted has 768 entries.
C14_DimensionMismatchNotRetried ==
    /\ \A i \in DOMAIN calls :
          (calls[i].reply.kind = "vector" /\ calls[i].reply.len # 768) =>
              /\ i = Len(calls)
              /\ embState = "raised"
              /\ embError = [type |-> "ValueError", cause |-> "dimension"]
              /\ calls[i].attempt = 1 => Cardinality(CallsFor(calls[i].text)) = 1
    /\ \A i \in DOMAIN embeddings : embeddings[i].len = 768
    /\ \A c \in chunks : c.embedding = 768
    /\ embState = "stored" => Cardinality(chunks) = texts

\* The second text of a call got a response of 512 entries: one endpoint
\* call, the dimension error, and nothing persisted.
C14_Witness ==
    /\ embState = "raised"
    /\ texts = 2
    /\ Len(embeddings) = 1
    /\ calls[Len(calls)] = [text |-> 2, attempt |-> 1,
                            reply |-> [kind |-> "vector", len |-> 512]]
    /\ embError.type = "ValueError"
    /\ chunks = {}

\* ---- GitHubService --------------------------------------------------------
MaxOps == 2          \* calls of the service in one behaviour

ResetDelay == 10     \* a reset time in the future: now + 10s

\* if remaining < 5
RateLimitThreshold == 5

\* What the remote can answer to a request: an HTTP response with a status
\* and the headers X-RateLimit-Remaining and X-RateLimit-Reset (a reset of 0
\* is a reset time in the past), or no response (httpx.RequestError).
GhReplies ==
    {[kind |-> "http", status |-> st, remaining |-> m, future |-> b] :
         st \in {200, 403, 404, 500}, m \in {0, 4, 5}, b \in BOOLEAN}
        \cup {[kind |-> "transport"]}

\* The response as the service sees it at time now.
Response(r, now) ==
    IF r.kind = "transport"
    THEN [kind |-> "transport", at |-> now]
    ELSE [kind |-> "http", status |-> r.status, remaining |-> r.remaining,
          reset |-> IF r.future THEN now + ResetDelay ELSE 0, at |-> now]

\* _check_rate_limit(response): the time at which it returns.
CheckRateLimit(resp, now) ==
    IF resp.remaining < RateLimitThreshold
    THEN LET wait_seconds == resp.reset - now
         IN  IF wait_seconds > 0 THEN now + wait_seconds ELSE now
    ELSE now

\* RateLimitExceededError(reset_time)
RateLimitExceededError(reset_time) ==
    [kind |-> "raised", type |-> "RateLimitExceededError", status_code |-> 429,
     msg |-> "rate_limit", reset_time |-> reset_time]

\* GitHubAPIError(message, status_code)
GitHubAPIError(msg, status_code) ==
    [kind |-> "raised", type |-> "GitHubAPIError", status_code |-> status_code,
     msg |-> msg, reset_time |-> -1]

\* The handler `except httpx.HTTPStatusError` of both operations.
OnHTTPStatusError(resp) ==
    IF resp.status = 403
    THEN RateLimitExceededError(resp.reset)
    ELSE IF resp.status = 404
         THEN GitHubAPIError("not_found", 404)
         ELSE GitHubAPIError("http", resp.status)

\* The handler `except httpx.RequestError` of both operations.
OnRequestError == GitHubAPIError("network", 500)

Returned == [kind |-> "returned"]

\* response.raise_for_status() raises.
IsErrorStatus(resp) == resp.status >= 400

ghFrame == <<projectDocs, documents, nextDocId, chunks, runVars, histVars, embVars,
            ragVars, auxVars>>

\* fetch_repository_tree is called: the tree request is issued.
FetchRepositoryTree ==
    /\ ghState \in {"idle", "ended"}
    /\ ghOps < MaxOps
    /\ ghOps' = ghOps + 1
    /\ request' = [url |-> "tree", at |-> clock, after |-> lastResponse]
    /\ ghState' = "tree"
    /\ ghOutcome' = NoOutcome
    /\ UNCHANGED <<clock, lastResponse, ghFrame>>

\* fetch_repository_tree: the remote answered the tree request.
TreeReply(r) ==
    /\ ghState = "tree"
    /\ r \in GhReplies
    /\ LET resp == Response(r, clock)
       IN  /\ lastResponse' = resp
           /\ IF resp.kind = "transport"
              THEN /\ ghOutcome' = OnRequestError
                   /\ UNCHANGED clock
              ELSE IF IsErrorStatus(resp)
                   THEN /\ ghOutcome' = OnHTTPStatusError(resp)
                        /\ UNCHANGED clock
                   ELSE /\ clock' = CheckRateLimit(resp, clock)
                        /\ ghOutcome' = Returned
    /\ ghState' = "ended"
    /\ UNCHANGED <<ghOps, request, ghFrame>>

\* download_file_content is called: the raw content request is issued.
DownloadFileContent ==
    /\ ghState \in {"idle", "ended"}
    /\ ghOps < MaxOps
    /\ ghOps' = ghOps + 1
    /\ request' = [url |-> "raw", at |-> clock, after |-> lastResponse]
    /\ ghState' = "raw"
    /\ ghOutcome' = NoOutcome
    /\ UNCHANGED <<clock, lastResponse, ghFrame>>

\* download_file_content: the remote answered the raw content request; on
\* success the rate limit is checked and the contents request is issued.
RawReply(r) ==
    /\ ghState = "raw"
    /\ r \in GhReplies
    /\ LET resp == Response(r, clock)
       IN  /\ lastResponse' = resp
           /\ IF resp.kind = "transport"
              THEN /\ ghOutcome' = OnRequestError
                   /\ ghState' = "ended"
                   /\ UNCHANGED <<clock, request>>
              ELSE IF resp.status = 404
                   THEN /\ ghOutcome' = GitHubAPIError("not_found", 404)
                        /\ ghState' = "ended"
                        /\ UNCHANGED <<clock, request>>
                   ELSE IF IsErrorStatus(resp)
                        THEN /\ ghOutcome' = OnHTTPStatusError(resp)
                             /\ ghState' = "ended"
                             /\ UNCHANGED <<clock, request>>
                        ELSE /\ clock' = CheckRateLimit(resp, clock)
                             /\ request' = [url |-> "contents",
                                            at |-> CheckRateLimit(resp, clock),
                                            after |-> resp]
                             /\ ghState' = "contents"
                             /\ UNCHANGED ghOutcome
    /\ UNCHANGED <<ghOps, ghFrame>>

\* download_file_content: the remote answered the contents request (the
\* revision of the file); the content and the revision are returned.
ContentsReply(r) ==
    /\ ghState = "contents"
    /\ r \in GhReplies
    /\ LET resp == Response(r, clock)
       IN  /\ lastResponse' = resp
           /\ ghOutcome' = IF resp.kind = "transport"
                           THEN OnRequestError
                           ELSE IF IsErrorStatus(resp)
                                THEN OnHTTPStatusError(resp)
                                ELSE Returned
    /\ ghState' = "ended"
    /\ UNCHANGED <<clock, ghOps, request, ghFrame>>

GhInit == ServicesInit

GhNext ==
    \/ FetchRepositoryTree
    \/ \E r \in GhReplies : TreeReply(r)
    \/ DownloadFileContent
    \/ \E r \in GhReplies : RawReply(r)
    \/ \E r \in GhReplies : ContentsReply(r)

GhSpec == GhInit /\ [][GhNext]_vars

\* C15: a request that follows a successful response reporting remaining < 5
\* with a reset time in the future is issued at or after that reset time;
\* one that follows a response reporting remaining >= 5 is issued at once.
C15_WaitBeforeNextRequest ==
    (request # NoRequest /\ request.after # NoResponse
        /\ request.after.kind = "http" /\ request.after.status = 200) =>
        LET a == request.after
        IN  /\ (a.remaining < 5 /\ a.reset > a.at) => request.at >= a.reset
            /\ a.remaining >= 5 => request.at = a.at

\* C16: a call ended by a 404 raises the not-found error, one ended by a
\* transport failure raises the network error, and the rate-limit error is
\* raised exactly when the remote answered 403 with remaining = 0, carrying
\* the reset time of that response.
C16_ErrorKinds ==
    ghState = "ended" =>
        /\ lastResponse.kind = "transport" => ghOutcome = GitHubAPIError("network", 500)
        /\ lastResponse.kind = "http" =>
              /\ lastResponse.status = 404 => ghOutcome = GitHubAPIError("not_found", 404)
              /\ ghOutcome.kind = "raised" /\ ghOutcome.type = "RateLimitExceededError"
                    <=> (lastResponse.status = 403 /\ lastResponse.remaining = 0)
              /\ (ghOutcome.kind = "raised" /\ ghOutcome.type = "RateLimitExceededError")
                    => ghOutcome.reset_time = lastResponse.reset

\* ---- ChunkRepository.similarity_search, VectorSearchTool, RAGAgent ---------
MaxChunks == 3       \* most chunks in the corpus of the query scenario

\* Scores and distances are fixed-point numbers with 5 decimals.
Scale == 100000

\* The embeddings are unit vectors at multiples of 45 degrees; Cos8(k) is
\* the cosine of k * 45 degrees.
Cos8(k) ==
    CASE k % 8 = 0 -> 100000
      [] k % 8 \in {1, 7} -> 70711
      [] k % 8 \in {2, 6} -> 0
      [] k % 8 \in {3, 5} -> -70711
      [] OTHER -> -100000

\* Chunk.embedding.cosine_distance(query_embedding): 1 - cos(angle).
CosineDistance(e, q) == Scale - Cos8(e - q + 8)

Dirs == 0..4         \* embeddings stored in the corpus
QueryDir == 0        \* the embedding of the question

Projects == {1, 2}

\* RAGAgent.top_k: Field(default=5, ge=1, le=20)
TopKs == {2, 5}

\* VectorSearchTool.similarity_threshold: Field(default=0.0, ...)
DefaultThreshold == 0

\* The documents of the corpus: two of collection 1, one of collection 2,
\* which holds a file of the same path.
CorpusDocuments ==
    { [id |-> 1, project_doc_id |-> 1, file_path |-> 1, file_type |-> "md",
       content |-> 1, commit_sha |-> 1],
      [id |-> 2, project_doc_id |-> 2, file_path |-> 1, file_type |-> "md",
       content |-> 1, commit_sha |-> 1],
      [id |-> 3, project_doc_id |-> 1, file_path |-> 2, file_type |-> "csv",
       content |-> 1, commit_sha |-> 1] }

NoAnchor == 0

\* The header anchor stored with chunk i (absent for every other chunk).
AnchorOf(i) == IF i % 2 = 0 THEN i ELSE NoAnchor

\* The chunks table when chunk i belongs to document a[i][1] and has the
\* embedding a[i][2]; the indices of a document count from 0.
CorpusChunks(a) ==
    { [id |-> i,
       document_id |-> a[i][1],
       chunk_index |-> Cardinality({j \in 1..(i - 1) : a[j][1] = a[i][1]}),
       chunk_text |-> i,
       header_anchor |-> AnchorOf(i),
       embedding |-> a[i][2]] : i \in DOMAIN a }

\* Variant: the score is passed on unrounded.
Unrounded(x) == x

\* round(similarity, 4): to the nearest multiple of 0.0001, a tie going to
\* the even one.
Round4(x) ==
    LET q == x \div 10
        r == x % 10
    IN  IF r < 5 THEN q * 10
        ELSE IF r > 5 THEN (q + 1) * 10
        ELSE IF q % 2 = 0 THEN q * 10 ELSE (q + 1) * 10

\* The document a chunk belongs to (chunk.document).
DocumentOf(c) == CHOOSE d \in documents : d.id = c.document_id

\* Variant: no restriction on the project.
AnyProject(pid, project_id) == TRUE

\* .where(ProjectDoc.project_id == project_id)
ProjectFilter(pid, project_id) == pid = project_id

\* The rows of chunks JOIN documents JOIN project_docs kept by the WHERE.
Eligible(project_id) ==
    {c \in chunks :
        \E d \in documents :
            /\ d.id = c.document_id
            /\ d.project_doc_id \in DOMAIN projectDocs
            /\ ProjectFilter(projectDocs[d.project_doc_id].project_id, project_id)}

\* ChunkRepository.similarity_search: the answers the database may give to
\* ORDER BY cosine_distance LIMIT limit (rows of equal distance come in any
\* order), each row with similarity = 1 - distance.
SimilaritySearch(q, project_id, limit) ==
    LET E == Eligible(project_id)
        m == Min(limit, Cardinality(E))
        ordered == {s \in [1..m -> E] :
                       /\ \A i \in 1..m : \A j \in 1..m : i # j => s[i] # s[j]
                       /\ \A i \in 1..m : \A j \in 1..m :
                             i < j => CosineDistance(s[i].embedding, q)
                                          <= CosineDistance(s[j].embedding, q)
                       /\ \A c \in E : (\A i \in 1..m : s[i] # c) =>
                             \A i \in 1..m : CosineDistance(s[i].embedding, q)
                                                 <= CosineDistance(c.embedding, q)}
    IN  {[i \in 1..m |-> [Chunk |-> s[i],
                          similarity |-> Scale - CosineDistance(s[i].embedding, q)]] :
            s \in ordered}

\* ChunkResult(...) as built by VectorSearchTool.execute.
ChunkResult(row) ==
    [chunk_id |-> row.Chunk.id,
     document_id |-> row.Chunk.document_id,
     chunk_text |-> row.Chunk.chunk_text,
     file_path |-> DocumentOf(row.Chunk).file_path,
     header_anchor |-> row.Chunk.header_anchor,
     similarity_score |-> Round4(row.similarity),
     chunk_index |-> row.Chunk.chunk_index]

\* similarity_score: float = Field(..., ge=0.0, le=1.0)
ScoreValid(x) == 0 <= x /\ x <= Scale

\* The loop of VectorSearchTool.execute over the search results.
Execute(rs, threshold) ==
    LET kept == SelectSeq(rs, LAMBDA row : row.similarity >= threshold)
    IN  [i \in 1..Len(kept) |-> ChunkResult(kept[i])]

\* Variant: the empty result is not told apart.
NeverEmpty(cs) == FALSE

\* if not chunks
NoChunks(cs) == cs = <<>>

\* RAGAgent._format_context
FormatContext(cs) ==
    [i \in 1..Len(cs) |-> [source |-> i, filename |-> cs[i].file_path,
                           anchor |-> cs[i].header_anchor,
                           chunk_text |-> cs[i].chunk_text]]

\* RAGAgent._format_sources
FormatSources(cs) ==
    [i \in 1..Len(cs) |-> [document_id |-> cs[i].document_id,
                           file_path |-> cs[i].file_path,
                           header_anchor |-> cs[i].header_anchor,
                           similarity_score |-> cs[i].similarity_score]]

\* The fixed answer of process_query when nothing was retrieved.
NotFoundResponse == [response_text |-> "not_found", sources |-> <<>>]

ragFrame == <<clock, projectDocs, documents, nextDocId, chunks, runVars, histVars,
              embVars, ghVars, auxVars>>

\* process_query of an agent of project p with top_k = k is called; the
\* question is sent to the embedding service.
ProcessQuery(p, k) ==
    /\ ragState = "idle"
    /\ p \in Projects
    /\ k \in TopKs
    /\ agentProject' = p
    /\ top_k' = k
    /\ ragState' = "embedding"
    /\ UNCHANGED <<results, chunk_results, context, llmCalls, response, ragError, ragFrame>>

\* generate_embedding(self.query) raised.
QueryEmbeddingFails ==
    /\ ragState = "embedding"
    /\ ragState' = "raised"
    /\ ragError' = [type |-> "ConnectionError", cause |-> "embedding"]
    /\ UNCHANGED <<agentProject, top_k, results, chunk_results, context, llmCalls,
                   response, ragFrame>>

\* The query was embedded, similarity_search answered and execute built its
\* ChunkResults; process_query returns the fixed answer, or formats the
\* context and calls generate_completion.
VectorSearch ==
    /\ ragState = "embedding"
    /\ \E rs \in SimilaritySearch(QueryDir, agentProject, top_k) :
          LET cs == Execute(rs, DefaultThreshold)
          IN  /\ results' = rs
              /\ IF \E i \in DOMAIN cs : ~ScoreValid(cs[i].similarity_score)
                 THEN /\ ragState' = "raised"
                      /\ ragError' = [type |-> "ValidationError", cause |-> "ChunkResult"]
                      /\ UNCHANGED <<chunk_results, context, llmCalls, response>>
                 ELSE /\ chunk_results' = cs
                      /\ UNCHANGED ragError
                      /\ IF NoChunks(cs)
                         THEN /\ response' = NotFoundResponse
                              /\ ragState' = "answered"
                              /\ UNCHANGED <<context, llmCalls>>
                         ELSE /\ context' = FormatContext(cs)
                              /\ llmCalls' = llmCalls + 1
                              /\ ragState' = "generating"
                              /\ UNCHANGED response
    /\ UNCHANGED <<agentProject, top_k, ragFrame>>

\* The database query of similarity_search raised.
VectorSearchFails ==
    /\ ragState = "embedding"
    /\ ragState' = "raised"
    /\ ragError' = [type |-> "DatabaseError", cause |-> "similarity_search"]
    /\ UNCHANGED <<agentProject, top_k, results, chunk_results, context, llmCalls,
                   response, ragFrame>>

\* generate_completion returned: the sources are formatted and the
\* RAGResponse is returned.
CompletionReturns ==
    /\ ragState = "generating"
    /\ response' = [response_text |-> "completion", sources |-> FormatSources(chunk_results)]
    /\ ragState' = "answered"
    /\ UNCHANGED <<agentProject, top_k, results, chunk_results, context, llmCalls,
                   ragError, ragFrame>>

\* generate_completion raised: the exception is logged and raised again.
CompletionFails ==
    /\ ragState = "generating"
    /\ ragState' = "raised"
    /\ ragError' = [type |-> "Exception", cause |-> "completion"]
    /\ UNCHANGED <<agentProject, top_k, results, chunk_results, context, llmCalls,
                   response, ragFrame>>

\* The corpus of the query scenario: up to MaxChunks chunks, each of any
\* document and with any of the embeddings.
RagInit ==
    /\ projectDocs = [i \in ProjectDocIds |->
                        [project_id |-> i, last_synced_at |-> NoDate,
                         last_github_commit_date |-> NoDate]]
    /\ documents = CorpusDocuments
    /\ nextDocId = 4
    /\ \E n \in 0..MaxChunks :
          \E a \in [1..n -> {d.id : d \in CorpusDocuments} \X Dirs] :
              chunks = CorpusChunks(a)
    /\ NoRun
    /\ EmbIdle
    /\ GhIdle
    /\ RagIdle
    /\ AuxIdle

RagNext ==
    \/ \E p \in Projects : \E k \in TopKs : ProcessQuery(p, k)
    \/ QueryEmbeddingFails
    \/ VectorSearch
    \/ VectorSearchFails
    \/ CompletionReturns
    \/ CompletionFails

RagSpec == RagInit /\ [][RagNext]_vars

\* The project a document belongs to, through its collection.
ProjectOfDoc(document_id) ==
    LET d == CHOOSE x \in documents : x.id = document_id
    IN  projectDocs[d.project_doc_id].project_id

\* The search results at or above the threshold, in the order of the search.
Retained == SelectSeq(results, LAMBDA row : row.similarity >= DefaultThreshold)

\* C17: when the similarity search returned no chunk, or only chunks below
\* the similarity threshold, process_query returns the fixed not-found text
\* with an empty source list and generate_completion is not called.
C17_NoChunksNoCompletion ==
    /\ (ragState \in {"generating", "answered"} /\ Retained = <<>>) =>
          /\ ragState = "answered"
          /\ response = NotFoundResponse
          /\ llmCalls = 0
          /\ context = <<>>
    /\ llmCalls > 0 => Retained # <<>>

\* The search returned chunks, all of them below the threshold, and the
\* fixed answer was returned without a completion call.
C17_Witness ==
    /\ ragState = "answered"
    /\ Len(results) >= 2
    /\ \A i \in DOMAIN results : results[i].similarity < DefaultThreshold
    /\ response = NotFoundResponse
    /\ llmCalls = 0

\* C18: no row of the search, no ChunkResult and no source of the answer
\* belongs to a document of a collection of another project than the one
\* asked for.
C18_ProjectIsolation ==
    /\ \A i \in DOMAIN results :
          ProjectOfDoc(results[i].Chunk.document_id) = agentProject
    /\ \A i \in DOMAIN chunk_results :
          ProjectOfDoc(chunk_results[i].document_id) = agentProject
    /\ \A i \in DOMAIN context :
          \E c \in chunks : /\ c.chunk_text = context[i].chunk_text
                            /\ ProjectOfDoc(c.document_id) = agentProject
    /\ response # NoRAGResponse =>
          \A i \in DOMAIN response.sources :
              ProjectOfDoc(response.sources[i].document_id) = agentProject

\* The corpus holds a chunk of the other project that is nearer to the
\* question than the chunk returned as the only source.
C18_Witness ==
    /\ ragState = "answered"
    /\ Len(response.sources) = 1
    /\ top_k > 1
    /\ \E c \in chunks :
          /\ ProjectOfDoc(c.document_id) # agentProject
          /\ CosineDistance(c.embedding, QueryDir)
                 < Scale - results[1].similarity

\* C19: the rows of similarity_search are ordered by score descending, the
\* score of a row is 1 - cosine distance, and every score lies in [0,1].
C19_ScoresOrderedInUnitInterval ==
    /\ \A i \in DOMAIN results : \A j \in DOMAIN results :
          i < j => results[i].similarity >= results[j].similarity
    /\ \A i \in DOMAIN results :
          /\ results[i].similarity
                 = Scale - CosineDistance(results[i].Chunk.embedding, QueryDir)
          /\ 0 <= results[i].similarity
          /\ results[i].similarity <= Scale

\* C20: when a chunk is retained the answer has one source per retained
\* chunk, in the order of the search, carrying the chunk's document id, the
\* path of its document, its anchor and its similarity rounded to 4
\* decimals; the context has one entry per retained chunk in the same order;
\* chunks below the threshold are in neither.
C20_SourcesMatchRetained ==
    /\ (ragState = "answered" /\ Retained # <<>>) =>
          /\ Len(response.sources) = Len(Retained)
          /\ \A i \in DOMAIN Retained :
                LET c == Retained[i].Chunk
                    s == response.sources[i]
                    d == CHOOSE x \in documents : x.id = c.document_id
                IN  /\ s.document_id = c.document_id
                    /\ s.file_path = d.file_path
                    /\ s.header_anchor = c.header_anchor
                    /\ s.similarity_score * 10 \in
                           (Retained[i].similarity * 10 - 50)..(Retained[i].similarity * 10 + 50)
                    /\ s.similarity_score % 10 = 0
    /\ ragState \in {"generating", "answered"} =>
          /\ Len(context) = Len(Retained)
          /\ \A i \in DOMAIN context :
                context[i].chunk_text = Retained[i].Chunk.chunk_text

\* An answer with two sources in the order of the search, the second one
\* with a rounded score, while a chunk below the threshold was left out.
C20_Witness ==
    /\ ragState = "answered"
    /\ Len(results) = 3
    /\ Len(response.sources) = 2
    /\ results[3].similarity < DefaultThreshold
    /\ results[2].similarity = 70711
    /\ response.sources[2].similarity_score = 70710
    /\ response.sources[1].document_id # response.sources[2].document_id

\* ---- LLMService -----------------------------------------------------------
MaxCompletions == 2  \* most calls of generate_completion in a behaviour

\* class LLMProviderName
LLMProviderName == {"openai", "google", "litellm", "ollama"}

\* The llm_providers table as get_by_id sees it: one row per supported name
\* and one row whose provider_name is none of them; UnknownProvider is the id
\* of no row.
ProviderRows ==
    [i \in 1..5 |-> [id |-> i,
                     name |-> CASE i = 1 -> "openai"
                                [] i = 2 -> "google"
                                [] i = 3 -> "litellm"
                                [] i = 4 -> "ollama"
                                [] OTHER -> "unsupported"]]

UnknownProvider == 6

\* LLMProviderRepository.get_by_id as generate_completion uses it
ProviderById(id) == IF id \in DOMAIN ProviderRows THEN ProviderRows[id] ELSE NoProvider

\* The environment variable a provider call reads its API key from.
ApiKeyOf(name) ==
    CASE name = "openai" -> "OPENAI_API_KEY"
      [] name = "google" -> "GOOGLE_API_KEY"
      [] OTHER           -> "none"

\* stop=stop_after_attempt(3) of the four provider calls
LlmStopAfterAttempt == 3

\* retry=retry_if_exception_type(...) of the four provider calls
LlmRetryOn(name) ==
    IF name = "ollama"
    THEN {"ConnectionError", "TimeoutError"}
    ELSE {"RequestError", "TimeoutException"}

\* wait=wait_exponential(multiplier=2, min=2, max=30): the wait that follows
\* attempt n is multiplier * 2^(n-1) seconds, at least min and at most max.
LlmWaitExponential(n) ==
    LET w == Min(2 * 2^(n - 1), 30) IN IF w < 2 THEN 2 ELSE w

\* What the provider's client can answer: a completion, a transport or
\* timeout exception (of httpx or a builtin), or APIError, which stands for
\* every application-level exception (the provider rejected the request).
ProviderReplies ==
    {[kind |-> "text"]}
        \cup {[kind |-> "raise", type |-> t] :
                 t \in {"RequestError", "TimeoutException", "ConnectionError",
                        "TimeoutError", "APIError"}}

\* One execution of the body of _call_openai, _call_google, _call_litellm or
\* _call_ollama: whether a request was sent, and the text returned or the
\* exception that leaves the body.  Every exception of the client is caught
\* by `except Exception` and leaves as an LLMProviderError carrying its text.
CallProvider(name, env, r) ==
    IF ApiKeyOf(name) # "none" /\ ApiKeyOf(name) \notin env
    THEN [sent |-> FALSE, raised |-> TRUE, type |-> "LLMProviderError",
          text |-> "API_KEY not found in environment", upstream |-> "none"]
    ELSE IF r.kind = "text"
         THEN [sent |-> TRUE, raised |-> FALSE]
         ELSE [sent |-> TRUE, raised |-> TRUE, type |-> "LLMProviderError",
               text |-> "API error", upstream |-> r.type]

\* The handlers of generate_completion on an exception of the routing block:
\* RetryError and LLMProviderError are re-raised, anything else leaves as an
\* LLMProviderError("Unexpected error in LLM completion: ...").
CompletionHandlers(exc) ==
    IF exc.type \in {"RetryError", "LLMProviderError"}
    THEN [kind |-> "raise", type |-> exc.type, text |-> exc.text,
          upstream |-> exc.upstream]
    ELSE [kind |-> "raise", type |-> "LLMProviderError", text |-> "Unexpected error",
          upstream |-> exc.type]

\* generate_completion(id, messages, db) is called while the environment
\* holds the keys env: the provider is fetched and the call is routed.
GenerateCompletion(id, env) ==
    /\ llmState \in {"idle", "done"}
    /\ completions < MaxCompletions
    /\ completions' = completions + 1
    /\ environ' = env
    /\ provider' = ProviderById(id)
    /\ provider_calls' = <<>>
    /\ llm_sleeps' = <<>>
    /\ IF provider' = NoProvider
       THEN /\ llmState' = "done"
            /\ llm_attempt' = 0
            /\ llmOutcome' = [kind |-> "raise", type |-> "ValueError",
                              text |-> "LLM provider not found", upstream |-> "none"]
       ELSE IF provider'.name \notin LLMProviderName
            THEN /\ llmState' = "done"
                 /\ llm_attempt' = 0
                 /\ llmOutcome' = CompletionHandlers(
                        [type |-> "ValueError", text |-> "Unsupported provider",
                         upstream |-> "none"])
            ELSE /\ llmState' = "calling"
                 /\ llm_attempt' = 1
                 /\ llmOutcome' = NoOutcome
    /\ UNCHANGED llmFrame

\* One attempt of the provider call, the client answering r: the body
\* returns or raises, and the retry decorator returns the text, sleeps and
\* starts the next attempt, or lets the exception out to generate_completion.
ProviderAttempt(r) ==
    /\ llmState = "calling"
    /\ r \in ProviderReplies
    /\ LET out == CallProvider(provider.name, environ, r)
       IN  /\ provider_calls' =
                 IF out.sent
                 THEN Append(provider_calls, [attempt |-> llm_attempt, reply |-> r])
                 ELSE provider_calls
           /\ IF ~out.raised
              THEN /\ llmState' = "done"
                   /\ llmOutcome' = [kind |-> "return"]
                   /\ UNCHANGED <<llm_attempt, llm_sleeps>>
              ELSE IF out.type \in LlmRetryOn(provider.name)
                      /\ llm_attempt < LlmStopAfterAttempt
                   THEN /\ llm_sleeps' = Append(llm_sleeps, LlmWaitExponential(llm_attempt))
                        /\ llm_attempt' = llm_attempt + 1
                        /\ UNCHANGED <<llmState, llmOutcome>>
                   ELSE /\ llmState' = "done"
                        /\ llmOutcome' = CompletionHandlers(out)
                        /\ UNCHANGED <<llm_attempt, llm_sleeps>>
    /\ UNCHANGED <<environ, provider, completions, llmFrame>>

LlmInit == ServicesInit

LlmNext ==
    \/ \E id \in DOMAIN ProviderRows \cup {UnknownProvider} :
          \E env \in SUBSET {"OPENAI_API_KEY", "GOOGLE_API_KEY"} :
              GenerateCompletion(id, env)
    \/ \E r \in ProviderReplies : ProviderAttempt(r)

LlmSpec == LlmInit /\ [][LlmNext]_vars

\* The errors the retry of a provider call is declared for.
TransientReply(c) ==
    c.reply.kind = "raise" /\ c.reply.type \in LlmRetryOn(provider.name)

\* C21: a provider call that fails with a request or timeout error is made
\* again, up to 3 attempts with waits of 2s, 4s, ... (at most 30s) between
\* them; an application-level error is not retried; a call that failed ends
\* in an LLMProviderError carrying the upstream error.
C21_ProviderCallRetried ==
    llmState = "done" =>
        /\ Len(provider_calls) <= LlmStopAfterAttempt
        /\ \A i \in DOMAIN provider_calls :
              /\ (TransientReply(provider_calls[i]) /\ i < LlmStopAfterAttempt) =>
                     /\ Len(provider_calls) > i
                     /\ Len(llm_sleeps) >= i
                     /\ llm_sleeps[i] = Min(2 ^ i, 30)
              /\ (provider_calls[i].reply.kind = "raise"
                     /\ ~TransientReply(provider_calls[i])) => i = Len(provider_calls)
        /\ (provider_calls # <<>>
               /\ provider_calls[Len(provider_calls)].reply.kind = "raise") =>
              /\ llmOutcome.kind = "raise"
              /\ llmOutcome.type = "LLMProviderError"
              /\ llmOutcome.upstream = provider_calls[Len(provider_calls)].reply.type

\* C22: a provider id that is not stored, or a stored provider whose name is
\* not supported, makes generate_completion fail with a configuration error
\* (ValueError, not the LLMProviderError of a failed completion) before any
\* request is sent to a provider.
C22_ConfigurationErrorFirst ==
    (llmState = "done" /\ (provider = NoProvider \/ provider.name \notin LLMProviderName)) =>
        /\ provider_calls = <<>>
        /\ llmOutcome.kind = "raise"
        /\ llmOutcome.type = "ValueError"

\* ---- markdown_parser.find_nearest_header ------------------------------------
MaxHeaders == 3      \* most headers passed to one find_nearest_header

\* HeaderInfo.level of the headers extract_headers keeps (H1-H3)
Levels == 1..3

\* HeaderInfo.char_position of a header, and the chunk positions around them
Offsets == 0..1
ChunkPositions == 0..2

\* The anchor of the i-th header of a list when it is not the empty string:
\* one name per header, so that the value returned tells which was selected.
AnchorNames == <<"h1", "h2", "h3", "h4", "h5">>

\* find_nearest_header returning None
NoHeaderAnchor == "None"

\* The header lists of at most MaxHeaders HeaderInfo (text and line_number
\* are not read by find_nearest_header).
HeaderLists ==
    UNION { { [i \in 1..n |-> [level |-> f[i][1], char_position |-> f[i][2],
                               anchor |-> IF f[i][3] THEN "" ELSE AnchorNames[i]]] :
                f \in [1..n -> Levels \X Offsets \X BOOLEAN] } : n \in 0..MaxHeaders }

\* Variant: a header at the chunk position counts as preceding.
PrecedesOrAt(h, p) == h.char_position <= p

\* h.char_position < chunk_position
Precedes(h, p) == h.char_position < p

\* [h for h in headers if h.char_position < chunk_position]
RECURSIVE PrecedingHeaders(_, _)
PrecedingHeaders(hs, p) ==
    IF hs = <<>>
    THEN <<>>
    ELSE (IF Precedes(Head(hs), p) THEN <<Head(hs)>> ELSE <<>>)
             \o PrecedingHeaders(Tail(hs), p)

\* key=lambda h: (-h.char_position, h.level): a sorts before b
KeyBefore(a, b) ==
    \/ a.char_position > b.char_position
    \/ a.char_position = b.char_position /\ a.level < b.level

\* list.sort is stable: h is placed after the elements it does not sort before.
RECURSIVE InsertSorted(_, _)
InsertSorted(s, h) ==
    IF s = <<>>
    THEN <<h>>
    ELSE IF KeyBefore(h, Head(s))
         THEN <<h>> \o s
         ELSE <<Head(s)>> \o InsertSorted(Tail(s), h)

\* preceding_headers.sort(key=...)
RECURSIVE SortHeaders(_)
SortHeaders(hs) ==
    IF hs = <<>>
    THEN <<>>
    ELSE InsertSorted(SortHeaders(SubSeq(hs, 1, Len(hs) - 1)), hs[Len(hs)])

find_nearest_header(p, hs) ==
    IF hs = <<>>
    THEN NoHeaderAnchor
    ELSE LET preceding_headers == SortHeaders(PrecedingHeaders(hs, p))
         IN  IF preceding_headers = <<>>
             THEN NoHeaderAnchor
             ELSE LET nearest == preceding_headers[1]
                  IN  IF nearest.anchor # "" THEN nearest.anchor ELSE NoHeaderAnchor

\* find_nearest_header(p, hs) is called.
CallFindNearestHeader(p, hs) ==
    /\ mdState = "idle"
    /\ mdState' = "called"
    /\ chunk_position' = p
    /\ headers' = hs
    /\ UNCHANGED <<header_anchor, mdFrame>>

\* The call returns.
ReturnNearestHeader ==
    /\ mdState = "called"
    /\ mdState' = "returned"
    /\ header_anchor' = find_nearest_header(chunk_position, headers)
    /\ UNCHANGED <<headers, chunk_position, mdFrame>>

MdInit == ServicesInit

MdNext ==
    \/ \E p \in ChunkPositions : \E hs \in HeaderLists : CallFindNearestHeader(p, hs)
    \/ ReturnNearestHeader

MdSpec == MdInit /\ [][MdNext]_vars

\* C23: the anchor returned is that of the header with the largest offset
\* strictly below the chunk position (a header at the position itself does
\* not count), among several at that offset one of the lowest level; it is
\* absent if no header precedes the position or the selected anchor is empty.
C23_NearestPrecedingHeader ==
    mdState = "returned" =>
        LET before == {i \in DOMAIN headers : headers[i].char_position < chunk_position}
            best == {i \in before :
                        \A j \in before :
                            \/ headers[j].char_position < headers[i].char_position
                            \/ /\ headers[j].char_position = headers[i].char_position
                               /\ headers[j].level >= headers[i].level}
        IN  IF before = {}
            THEN header_anchor = NoHeaderAnchor
            ELSE \E i \in best :
                    header_anchor = IF headers[i].anchor = "" THEN NoHeaderAnchor
                                    ELSE headers[i].anchor

\* A chunk that starts at the offset of a header, after two headers that
\* share an earlier offset: the one of the lower level, listed second, is
\* selected.
C23_Witness ==
    /\ mdState = "returned"
    /\ Len(headers) = 3
    /\ headers[1].char_position = 0 /\ headers[1].level = 2
    /\ headers[2].char_position = 0 /\ headers[2].level = 1
    /\ headers[3].char_position = 1 /\ headers[3].anchor # ""
    /\ chunk_position = 1
    /\ header_anchor = "h2"

\* ---- LLMProviderRepository --------------------------------------------------
MaxProviderOps == 3  \* most repository calls in a behaviour

\* An Optional field of an LLMProviderUpdate: left out (None), or a value
NotProvided == {}
Provided(v) == {v}

\* LLMProviderCreate: is_default and, of the other fields, model_name
ProviderCreates == [is_default : BOOLEAN, model_name : {"m1", "m2"}]

\* LLMProviderUpdate: every field is optional
ProviderUpdates ==
    [is_default : {NotProvided, Provided(TRUE), Provided(FALSE)},
     model_name : {NotProvided, Provided("m2")}]

\* Variant: the rows are left as they are.
KeepDefaults(rows) == rows

\* _unset_all_defaults: UPDATE llm_providers SET is_default = false WHERE is_default
UnsetAllDefaults(rows) == { [r EXCEPT !.is_default = FALSE] : r \in rows }

\* get_by_id on the table: the rows of that id (none or one)
RowsById(rows, id) == { r \in rows : r.id = id }

\* select(LLMProvider).where(LLMProvider.is_default)
DefaultRows(rows) == { r \in rows : r.is_default }

\* create(data)
CreateProvider(data) ==
    /\ provOps < MaxProviderOps
    /\ data \in ProviderCreates
    /\ LET rows == IF data.is_default THEN UnsetAllDefaults(llm_providers)
                   ELSE llm_providers
           new == [id |-> nextProviderId, is_default |-> data.is_default,
                   model_name |-> data.model_name]
       IN  /\ llm_providers' = rows \cup {new}
           /\ provOutcome' = [kind |-> "return", op |-> "create", id |-> new.id,
                              data |-> data]
    /\ nextProviderId' = nextProviderId + 1
    /\ provOps' = provOps + 1
    /\ UNCHANGED provFrame

\* update(provider_id, data)
UpdateProvider(id, data) ==
    /\ provOps < MaxProviderOps
    /\ data \in ProviderUpdates
    /\ provOps' = provOps + 1
    /\ IF RowsById(llm_providers, id) = {}
       THEN /\ provOutcome' = [kind |-> "none_returned", op |-> "update", id |-> id,
                               data |-> data]
            /\ UNCHANGED llm_providers
       ELSE LET row == CHOOSE r \in RowsById(llm_providers, id) : TRUE
            IN  IF /\ data.is_default = Provided(FALSE)
                   /\ row.is_default
                   /\ Cardinality(DefaultRows(llm_providers)) <= 1
                THEN /\ provOutcome' = [kind |-> "raise", op |-> "update", id |-> id,
                                        data |-> data]
                     /\ UNCHANGED llm_providers
                ELSE LET rows == IF data.is_default = Provided(TRUE) /\ ~row.is_default
                                 THEN UnsetAllDefaults(llm_providers)
                                 ELSE llm_providers
                         cur == CHOOSE r \in RowsById(rows, id) : TRUE
                         upd == [cur EXCEPT
                                    !.model_name = IF data.model_name # NotProvided
                                                   THEN CHOOSE v \in data.model_name : TRUE
                                                   ELSE @,
                                    !.is_default = IF data.is_default # NotProvided
                                                   THEN CHOOSE v \in data.is_default : TRUE
                                                   ELSE @]
                     IN  /\ llm_providers' = (rows \ {cur}) \cup {upd}
                         /\ provOutcome' = [kind |-> "return", op |-> "update",
                                            id |-> id, data |-> data]
    /\ UNCHANGED <<nextProviderId, provFrame>>

\* set_default(provider_id)
SetDefaultProvider(id) ==
    /\ provOps < MaxProviderOps
    /\ provOps' = provOps + 1
    /\ IF RowsById(llm_providers, id) = {}
       THEN /\ provOutcome' = [kind |-> "none_returned", op |-> "set_default", id |-> id]
            /\ UNCHANGED llm_providers
       ELSE LET rows == UnsetAllDefaults(llm_providers)
                cur == CHOOSE r \in RowsById(rows, id) : TRUE
            IN  /\ llm_providers' = (rows \ {cur}) \cup {[cur EXCEPT !.is_default = TRUE]}
                /\ provOutcome' = [kind |-> "return", op |-> "set_default", id |-> id]
    /\ UNCHANGED <<nextProviderId, provFrame>>

\* delete(provider_id)
DeleteProvider(id) ==
    /\ provOps < MaxProviderOps
    /\ provOps' = provOps + 1
    /\ IF RowsById(llm_providers, id) = {}
       THEN /\ provOutcome' = [kind |-> "false_returned", op |-> "delete", id |-> id]
            /\ UNCHANGED llm_providers
       ELSE LET row == CHOOSE r \in RowsById(llm_providers, id) : TRUE
            IN  IF row.is_default
                THEN /\ provOutcome' = [kind |-> "raise", op |-> "delete", id |-> id]
                     /\ UNCHANGED llm_providers
                ELSE /\ llm_providers' = llm_providers \ {row}
                     /\ provOutcome' = [kind |-> "return", op |-> "delete", id |-> id]
    /\ UNCHANGED <<nextProviderId, provFrame>>

\* A table with exactly one default provider: the default alone, or with a
\* second provider that is not the default.
ProvInit ==
    /\ IngestIdle /\ EmbIdle /\ GhIdle /\ RagIdle /\ LlmIdle /\ MdIdle /\ UpsIdle
    /\ StatIdle /\ MsgIdle
    /\ \E n \in 1..2 :
          /\ llm_providers = { [id |-> i, is_default |-> (i = 1), model_name |-> "m1"] :
                                 i \in 1..n }
          /\ nextProviderId = n + 1
    /\ provOps = 0
    /\ provOutcome = NoOutcome

ProvNext ==
    \/ \E data \in ProviderCreates : CreateProvider(data)
    \/ \E id \in 1..nextProviderId : \E data \in ProviderUpdates : UpdateProvider(id, data)
    \/ \E id \in 1..nextProviderId : SetDefaultProvider(id)
    \/ \E id \in 1..nextProviderId : DeleteProvider(id)

ProvSpec == ProvInit /\ [][ProvNext]_vars

\* C24: from a table with one default provider, every sequence of create,
\* update, set_default and delete leaves exactly one default: a call that
\* makes a provider the default leaves no other default, deleting the default
\* is rejected, and unsetting the only default is rejected.
C24_ExactlyOneDefault ==
    /\ [](Cardinality(DefaultRows(llm_providers)) = 1)
    /\ [][provOps' # provOps =>
            LET target == RowsById(llm_providers, provOutcome'.id)
                after == RowsById(llm_providers', provOutcome'.id)
            IN  /\ (provOutcome'.op = "delete" /\ \E r \in target : r.is_default) =>
                       (provOutcome'.kind = "raise" /\ llm_providers' = llm_providers)
                /\ (/\ provOutcome'.op = "update"
                    /\ provOutcome'.data.is_default = Provided(FALSE)
                    /\ target = DefaultRows(llm_providers)) =>
                       (provOutcome'.kind = "raise" /\ llm_providers' = llm_providers)
                /\ (/\ provOutcome'.op \in {"create", "update", "set_default"}
                    /\ provOutcome'.kind = "return"
                    /\ \E r \in after : r.is_default) =>
                       DefaultRows(llm_providers') = after
         ]_vars

\* The default was moved to another provider, and deleting that provider
\* was then rejected.
C24_Witness ==
    /\ provOutcome.kind = "raise"
    /\ provOutcome.op = "delete"
    /\ provOutcome.id # 1
    /\ \E r \in llm_providers : r.id = 1 /\ ~r.is_default

\* ---- results of failed runs ---------------------------------------------------
\* The run stored or changed no Document row and no Chunk row.
NoRowsWritten == documents = atStart.documents /\ chunks = atStart.chunks

\* C25 (as stated): a SyncResult with success=false comes only from a run
\* that failed before any per-file work, so the run wrote no Document row and
\* no Chunk row.
C25_FailedRunWroteNothing ==
    (Ended /\ result.success = FALSE) =>
        /\ dlIdx = 1
        /\ NoRowsWritten

\* C25 (amended): a SyncResult with success=false comes from a run whose
\* collection was missing or whose lookup or file listing raised, and that run
\* wrote no Document row and no Chunk row, or from a run whose final
\* db.commit() raised after all per-file work, and the rows that run stored
\* are kept.
C25_FailedBeforeFilesOrAtCommit ==
    (Ended /\ result.success = FALSE) =>
        IF "commit" \notin FaultKinds
        THEN /\ ~PastDownloading
             /\ dlIdx = 1
             /\ NoRowsWritten
        ELSE /\ phase = "failed"
             /\ dlIdx > Len(files)
             /\ \A k \in DOMAIN task : task[k] \in Terminal
             /\ {stored_docs[k].id : k \in DOMAIN stored_docs} \subseteq {d.id : d \in documents}
             /\ atStart.chunks \subseteq chunks

\* A run stored a document and its chunks, its final commit raised, and it
\* returned success=false.
C25_Witness ==
    /\ phase = "failed"
    /\ result.success = FALSE
    /\ "commit" \in FaultKinds
    /\ documents # atStart.documents
    /\ chunks # atStart.chunks

\* ---- two runs of sync_project_doc on one collection --------------------------
MaxRaceFiles == 2    \* most files each of the two runs downloaded

\* The two background tasks started by two POST /project-docs/{id}/sync of
\* the same collection; each has the session of its request.
SyncTasks == {1, 2}

\* The collection both runs sync.
RaceProjectDoc == 1

\* The SELECT of an upsert was not issued yet.
NotSelected == [selected |-> FALSE]

\* The file a run stores at index i: path i, with the content that run
\* downloaded.
RaceFile(r, i) == [path |-> i, content |-> r, commit_sha |-> r]

\* The run finished store_documents_batch.
StoredAll(r) == upsIdx[r] > upsFiles[r]

\* DocumentRepository.upsert up to `existing_doc = result.scalar_one_or_none()`:
\* run r looks for the document of its current file.
UpsertSelect(r) ==
    /\ r \in DOMAIN upsIdx
    /\ ~StoredAll(r)
    /\ existing_doc[r] = NotSelected
    /\ existing_doc' =
          [existing_doc EXCEPT ![r] =
              [selected |-> TRUE,
               found |-> {d.id : d \in ExistingDoc(documents, RaceProjectDoc,
                                                    RaceFile(r, upsIdx[r]).path)}]]
    /\ UNCHANGED <<documents, nextDocId, upsFiles, upsIdx, upsStored, upsFrame>>

\* The rest of the upsert: the row found is updated, or a new row is added,
\* and the session commits.  The insert of a path that another session
\* inserted in the meantime breaks uq_project_doc_file_path: commit raises
\* IntegrityError, store_documents_batch logs it and goes on with the next
\* file without the document.
UpsertWrite(r) ==
    /\ r \in DOMAIN upsIdx
    /\ ~StoredAll(r)
    /\ existing_doc[r] # NotSelected
    /\ LET f == RaceFile(r, upsIdx[r])
           new == [id |-> nextDocId, project_doc_id |-> RaceProjectDoc,
                   file_path |-> f.path, file_type |-> FileType(f.path),
                   content |-> f.content, commit_sha |-> f.commit_sha]
       IN  IF existing_doc[r].found # {}
           THEN LET old == CHOOSE d \in documents : d.id \in existing_doc[r].found
                    upd == [old EXCEPT !.content = f.content,
                                       !.file_type = FileType(f.path),
                                       !.commit_sha = f.commit_sha]
                IN  /\ documents' = (documents \ {old}) \cup {upd}
                    /\ upsStored' = [upsStored EXCEPT ![r] = Append(@, old.id)]
                    /\ UNCHANGED nextDocId
           ELSE IF UniqueViolation(documents, new)
                THEN UNCHANGED <<documents, nextDocId, upsStored>>
                ELSE /\ documents' = documents \cup {new}
                     /\ nextDocId' = nextDocId + 1
                     /\ upsStored' = [upsStored EXCEPT ![r] = Append(@, new.id)]
    /\ upsIdx' = [upsIdx EXCEPT ![r] = @ + 1]
    /\ existing_doc' = [existing_doc EXCEPT ![r] = NotSelected]
    /\ UNCHANGED <<upsFiles, upsFrame>>

\* Both runs are at the start of step 3, each with the files it downloaded;
\* the collection is empty or holds the document of path 1 from an earlier run.
UpsInit ==
    /\ projectDocs = [i \in ProjectDocIds |->
                        [project_id |-> i, last_synced_at |-> NoDate,
                         last_github_commit_date |-> NoDate]]
    /\ chunks = {}
    /\ \E had \in BOOLEAN :
          /\ documents = IF had
                         THEN {[id |-> 1, project_doc_id |-> RaceProjectDoc,
                                file_path |-> 1, file_type |-> FileType(1),
                                content |-> 0, commit_sha |-> 0]}
                         ELSE {}
          /\ nextDocId = IF had THEN 2 ELSE 1
    /\ NoRun /\ EmbIdle /\ GhIdle /\ RagIdle /\ LlmIdle /\ MdIdle /\ ProvIdle
    /\ StatIdle /\ MsgIdle
    /\ upsFiles \in [SyncTasks -> 1..MaxRaceFiles]
    /\ upsIdx = [r \in SyncTasks |-> 1]
    /\ existing_doc = [r \in SyncTasks |-> NotSelected]
    /\ upsStored = [r \in SyncTasks |-> <<>>]

UpsNext ==
    \/ \E r \in SyncTasks : UpsertSelect(r)
    \/ \E r \in SyncTasks : UpsertWrite(r)

UpsSpec == UpsInit /\ [][UpsNext]_vars

\* C26: when two runs of one collection interleave, there is never more than
\* one Document per (collection, path), a path a run finished storing has its
\* Document, and a run that finished storing has every file it downloaded in
\* stored_docs, so that its files_synced is the number it downloaded.
C26_NoLostFile ==
    /\ \A d1, d2 \in documents :
          (d1.project_doc_id = d2.project_doc_id /\ d1.file_path = d2.file_path) =>
              d1.id = d2.id
    /\ \A r \in SyncTasks :
          /\ \A i \in 1..(upsIdx[r] - 1) :
                ExistingDoc(documents, RaceProjectDoc, i) # {}
          /\ StoredAll(r) => Len(upsStored[r]) = upsFiles[r]

\* ---- documents the embedding step does not handle ----------------------------
\* The stored documents of the run whose file type _process_and_embed_document
\* has no branch for.
UnsupportedDocs ==
    {k \in DOMAIN stored_docs :
        stored_docs[k].file_type \notin {"md", "markdown", "csv", "yaml", "yml", "json"}}

\* C27: a stored document of a file type outside md, markdown, csv, yaml,
\* yml, json (a .txt file) is skipped by the embedding step: its task never
\* reaches the chunker, the embedder or the index (no row of it is pending
\* or written), it adds nothing to embeddings_created, and it is neither
\* among the failed files nor named in an error.
C27_UnsupportedTypeSkipped ==
    /\ \A k \in UnsupportedDocs :
          /\ k \in DOMAIN task => task[k] \in {"waiting", "new", "skipped"}
          /\ \A c \in chunks : c.document_id # stored_docs[k].id
          /\ \A s \in DOMAIN pending :
                \A c \in pending[s] : c.document_id # stored_docs[k].id
          /\ \A i \in DOMAIN failed_files : failed_files[i] # stored_docs[k].file_path
          /\ \A i \in DOMAIN errors : errors[i].path # stored_docs[k].file_path
    /\ phase \in {"finalizing", "done"} =>
          /\ embeddings_created =
                 SumResults(stored_docs, task, DOMAIN stored_docs \ UnsupportedDocs)
          /\ phase = "done" => result.files_failed = Len(failed_files)

\* A run ended that stored a .txt document next to documents it embedded:
\* the .txt document was skipped.
C27_Witness ==
    /\ phase = "done"
    /\ \E k \in UnsupportedDocs : stored_docs[k].file_type = "txt" /\ task[k] = "skipped"
    /\ embeddings_created > 0
    /\ result.success = TRUE

\* ---- GET /project-docs/{id}/sync-status ---------------------------------------
MaxMinutes == 8      \* the wall clock, in minutes, stops here
MaxSyncs == 2        \* most runs started for the collection

\* timedelta(minutes=5)
SyncWindow == 5

\* The collection whose status is asked.
StatusProjectDoc == 1

\* get_sync_status on the row of the collection at time now: the status_value.
SyncStatusValue(row, now) ==
    IF row.last_synced_at = NoDate
    THEN "idle"
    ELSE IF now - row.last_synced_at < SyncWindow
         THEN "syncing"
         ELSE "completed"

\* POST /project-docs/{id}/sync: the run is handed to the background tasks.
PostSync ==
    /\ syncTask \in {"none", "ended"}
    /\ syncRuns.started < MaxSyncs
    /\ syncTask' = "running"
    /\ syncRuns' = [syncRuns EXCEPT !.started = @ + 1]
    /\ UNCHANGED <<clock, projectDocs, status_response, statFrame>>

\* The background run ends: with success=true after it wrote the timestamps
\* of the collection (step 6 of sync_project_doc), or with success=false and
\* the timestamps as they were.
SyncEnds(success) ==
    /\ syncTask = "running"
    /\ syncTask' = "ended"
    /\ IF success
       THEN /\ \E d \in RemoteDates :
                 projectDocs' = [projectDocs EXCEPT ![StatusProjectDoc] =
                                    [@ EXCEPT !.last_synced_at = clock,
                                              !.last_github_commit_date = d]]
            /\ syncRuns' = [syncRuns EXCEPT !.succeeded = @ + 1]
       ELSE UNCHANGED <<projectDocs, syncRuns>>
    /\ UNCHANGED <<clock, status_response, statFrame>>

\* A minute passes.
Minute ==
    /\ clock < MaxMinutes
    /\ clock' = clock + 1
    /\ UNCHANGED <<projectDocs, statVars, statFrame>>

\* GET /project-docs/{id}/sync-status answers: 404 for an id that is not
\* stored, else the status of the collection.
GetSyncStatus(id) ==
    /\ status_response' =
          IF id \notin DOMAIN projectDocs
          THEN [kind |-> "raise", status |-> "404", last_synced_at |-> NoDate,
                task |-> syncTask, runs |-> syncRuns]
          ELSE [kind |-> "status",
                status |-> SyncStatusValue(projectDocs[id], clock),
                last_synced_at |-> projectDocs[id].last_synced_at,
                task |-> syncTask,
                runs |-> syncRuns]
    /\ UNCHANGED <<clock, projectDocs, syncTask, syncRuns, statFrame>>

StatInit == ServicesInit

StatNext ==
    \/ PostSync
    \/ \E success \in BOOLEAN : SyncEnds(success)
    \/ Minute
    \/ \E id \in {StatusProjectDoc, UnknownId} : GetSyncStatus(id)

StatSpec == StatInit /\ [][StatNext]_vars

\* C28: the status reported is 'syncing' when a run of the collection was in
\* progress, 'idle' when no run was ever started (and only when no run has
\* synced the collection), and 'completed' when the last run had finished
\* (a collection whose runs all failed may still count as never synced).
C28_StatusFollowsRun ==
    status_response.kind = "status" =>
        LET st == status_response.status
        IN  /\ status_response.task = "running" => st = "syncing"
            /\ status_response.runs.started = 0 => st = "idle"
            /\ st = "idle" => (status_response.runs.succeeded = 0
                                  /\ status_response.task # "running")
            /\ (status_response.task = "ended" /\ status_response.runs.succeeded > 0) =>
                   st = "completed"

\* ---- what sync_project_doc hands to its caller ---------------------------------
\* The failures that leave the per-file handling of sync_project_doc.
RunLevelFaults == {"lookup", "listing", "commit"}

\* C29: sync_project_doc never raises: whatever failed (the collection
\* lookup, the source-control API, the storage of a document, chunking or
\* embedding, the final timestamp update), a run that ended has returned a
\* SyncResult, success=false with one error when the failure left the
\* per-file handling, and nothing is returned before the run ends.
C29_NeverRaises ==
    /\ Ended =>
          /\ result # NoResult
          /\ DOMAIN result \subseteq SyncResultFields
          /\ result.success \in BOOLEAN
          /\ FaultKinds \cap RunLevelFaults # {} =>
                (result.success = FALSE /\ Len(result.errors) = 1)
          /\ (FaultKinds \cap RunLevelFaults = {} /\ pd \in DOMAIN projectDocs) =>
                result.success = TRUE
    /\ phase \notin {"idle", "done", "failed"} => result = NoResult

\* A run in which the storage of a document failed and the final commit
\* raised ended by returning a SyncResult.
C29_Witness ==
    /\ phase = "failed"
    /\ FaultKinds = {"store", "commit"}
    /\ result # NoResult
    /\ result.success = FALSE

\* ---- MessageService.send_message ------------------------------------------------
MaxSends == 2        \* most calls of send_message in a behaviour

\* The conversation of the calls, and an id that is not stored.
ConversationId == 1
UnknownConversation == 2

\* SourceAttribution.file_path of a source, as its segments between "/";
\* <<>> is the empty path.
SourcePaths == {<<>>, <<"docs", "a.md">>}

\* source.file_path.split("/")[-1] if source.file_path else "unknown"
FileName(path) == IF path = <<>> THEN "unknown" ELSE path[Len(path)]

\* Step 4: the sources of the RAGResponse as stored in messages.sources.
SourcesJson(sources) ==
    [i \in 1..Len(sources) |->
        [document_id |-> sources[i].document_id,
         file_path |-> sources[i].file_path,
         file_name |-> FileName(sources[i].file_path),
         header_anchor |-> sources[i].header_anchor,
         similarity_score |-> sources[i].similarity_score]]

\* What generate_rag_response can do: return a RAGResponse with no source
\* or one, or raise (an HTTPException with its status and detail, or the
\* ValueError, ConnectionError or LLMProviderError of the agent).
AgentReplies ==
    {[kind |-> "return", response_text |-> "answer", sources |-> s] :
        s \in {<<>>} \cup {<<[document_id |-> 1, file_path |-> p, header_anchor |-> "intro",
                              similarity_score |-> 90000]>> : p \in SourcePaths}}
        \cup {[kind |-> "raise", type |-> "HTTPException", status_code |-> 503,
               detail |-> "LLM service unavailable"]}
        \cup {[kind |-> "raise", type |-> t, status_code |-> 0, detail |-> t] :
                 t \in {"ValueError", "ConnectionError", "LLMProviderError"}}

\* Variant: every exception, an HTTPException too, leaves as HTTP 500.
HandlersWrapAll(exc) ==
    [kind |-> "raise", type |-> "HTTPException", status_code |-> 500,
     detail |-> "Failed to generate AI response"]

\* The handlers of send_message: an HTTPException is re-raised, any other
\* exception leaves as HTTPException(500, "Failed to generate AI response").
SendMessageHandlers(exc) ==
    IF exc.type = "HTTPException"
    THEN [kind |-> "raise", type |-> "HTTPException", status_code |-> exc.status_code,
          detail |-> exc.detail]
    ELSE [kind |-> "raise", type |-> "HTTPException", status_code |-> 500,
          detail |-> "Failed to generate AI response"]

\* MessageRepository.create: the row is added and committed.
CreateMessage(rows, role, content, sources) ==
    Append(rows, [role |-> role, content |-> content, sources |-> sources])

\* A failure of the storage engine in a repository call.
StorageError == [kind |-> "raise", type |-> "SQLAlchemyError", status_code |-> 0,
                 detail |-> "SQLAlchemyError"]

\* send_message(db, cid, content) up to the call of the agent: the
\* conversation is looked up (404 when it is missing), the user message is
\* created and committed (or the commit fails), and the agent is called.
SendMessage(cid, stored) ==
    /\ msgState \in {"idle", "done", "raised"}
    /\ sends < MaxSends
    /\ sends' = sends + 1
    /\ msgStart' = [messages |-> messages, updated_at |-> updated_at]
    /\ agent_result' = NoOutcome
    /\ IF cid # ConversationId
       THEN /\ msgState' = "raised"
            /\ msgOutcome' = [kind |-> "raise", type |-> "HTTPException",
                              status_code |-> 404, detail |-> "not found"]
            /\ UNCHANGED messages
       ELSE IF stored
            THEN /\ messages' = CreateMessage(messages, "user", "question", <<>>)
                 /\ msgState' = "calling"
                 /\ msgOutcome' = NoOutcome
            ELSE /\ msgState' = "raised"
                 /\ msgOutcome' = SendMessageHandlers(StorageError)
                 /\ UNCHANGED messages
    /\ UNCHANGED <<updated_at, msgFrame>>

\* generate_rag_response returned or raised r.
AgentReplied(r) ==
    /\ msgState = "calling"
    /\ r \in AgentReplies
    /\ agent_result' = r
    /\ IF r.kind = "return"
       THEN /\ msgState' = "returned"
            /\ UNCHANGED msgOutcome
       ELSE /\ msgState' = "raised"
            /\ msgOutcome' = SendMessageHandlers(r)
    /\ UNCHANGED <<messages, updated_at, msgStart, sends, msgFrame>>

\* Steps 4 and 5: the assistant message is created with the converted
\* sources and committed, or the commit fails.
StoreAssistantMessage(stored) ==
    /\ msgState = "returned"
    /\ IF stored
       THEN /\ messages' = CreateMessage(messages, "assistant", agent_result.response_text,
                                         SourcesJson(agent_result.sources))
            /\ msgState' = "stored"
            /\ UNCHANGED msgOutcome
       ELSE /\ msgState' = "raised"
            /\ msgOutcome' = SendMessageHandlers(StorageError)
            /\ UNCHANGED messages
    /\ UNCHANGED <<updated_at, msgStart, agent_result, sends, msgFrame>>

\* Steps 6 and 7: update_timestamp sets updated_at = now() and commits, and
\* both messages are returned; or the update fails.
UpdateTimestamp(updated) ==
    /\ msgState = "stored"
    /\ IF updated
       THEN /\ updated_at' = updated_at + 1
            /\ msgState' = "done"
            /\ msgOutcome' = [kind |-> "return",
                              user_message |-> messages[Len(messages) - 1],
                              assistant_message |-> messages[Len(messages)]]
       ELSE /\ msgState' = "raised"
            /\ msgOutcome' = SendMessageHandlers(StorageError)
            /\ UNCHANGED updated_at
    /\ UNCHANGED <<messages, msgStart, agent_result, sends, msgFrame>>

MsgInit == ServicesInit

MsgNext ==
    \/ \E cid \in {ConversationId, UnknownConversation} : \E stored \in BOOLEAN :
          SendMessage(cid, stored)
    \/ \E r \in AgentReplies : AgentReplied(r)
    \/ \E stored \in BOOLEAN : StoreAssistantMessage(stored)
    \/ \E updated \in BOOLEAN : UpdateTimestamp(updated)

MsgSpec == MsgInit /\ [][MsgNext]_vars

\* The messages the current call of send_message has stored.
StoredByCall == SubSeq(messages, Len(msgStart.messages) + 1, Len(messages))

\* C30: the user message is stored before the agent is called; the assistant
\* message is stored and the conversation timestamp updated only after the
\* agent returned; when the agent raises, send_message raises HTTP 500, or
\* the agent's own HTTPException unchanged, no assistant message is stored,
\* the timestamp is as before and the user message stays stored.
C30_MessagesAroundAgent ==
    /\ SubSeq(messages, 1, Len(msgStart.messages)) = msgStart.messages
    /\ msgState \in {"calling", "returned"} =>
          /\ Len(StoredByCall) = 1
          /\ StoredByCall[1].role = "user"
          /\ updated_at = msgStart.updated_at
    /\ (\E i \in DOMAIN StoredByCall : StoredByCall[i].role = "assistant") =>
          /\ agent_result.kind = "return"
          /\ Len(StoredByCall) = 2
          /\ StoredByCall[1].role = "user"
          /\ StoredByCall[2].content = agent_result.response_text
    /\ updated_at # msgStart.updated_at =>
          /\ agent_result.kind = "return"
          /\ Len(StoredByCall) = 2
    /\ agent_result.kind = "raise" =>
          /\ msgState = "raised"
          /\ msgOutcome.type = "HTTPException"
          /\ IF agent_result.type = "HTTPException"
             THEN /\ msgOutcome.status_code = agent_result.status_code
                  /\ msgOutcome.detail = agent_result.detail
             ELSE msgOutcome.status_code = 500
          /\ Len(StoredByCall) = 1
          /\ StoredByCall[1].role = "user"
          /\ updated_at = msgStart.updated_at

\* After a first exchange was stored, the agent raised an HTTPException in
\* the second call: three messages are stored, the last one the user's.
C30_Witness ==
    /\ msgState = "raised"
    /\ agent_result.kind = "raise"
    /\ agent_result.type = "HTTPException"
    /\ msgOutcome.status_code = 503
    /\ Len(messages) = 3
    /\ messages[3].role = "user"
    /\ updated_at = 1

=============================================================================
